---- MODULE Spec2Model ----
(***************************************************************************)
(* Model of the adaptive translation pipeline of the transcription         *)
(* backend: TranslationCache, StrategySelector, CircuitBreaker and         *)
(* TranslationService.translate_segments                                   *)
(* (backend/app/services/translation_service.py, backend/app/core/retry.py)*)
(*                                                                         *)
(* A text is a sequence of characters.  The delimiter strings of           *)
(* TranslationService.DELIMITERS are modelled as single token characters   *)
(* "D0", "D1", "D2"; join, split and strip work on the sequences.          *)
(***************************************************************************)
EXTENDS Integers, Sequences, FiniteSets, TLC

VARIABLES
    cache,            \* the TranslationCache object
    strategy_metrics, \* StrategySelector.metrics
    circuit_breaker,  \* the CircuitBreaker object
    global_metrics,   \* TranslationService.global_metrics
    now,              \* time.time(), in seconds
    call,             \* the translate_segments call in progress (its locals and position)
    obs               \* observation of the run: what the last operation did

vars == <<cache, strategy_metrics, circuit_breaker, global_metrics, now, call, obs>>

(***************************************************************************)
(* Bounds of the model                                                     *)
(***************************************************************************)
MaxCacheOps == 4
MaxSegs == 2
MaxCalls == 3
MaxRouteCalls == 2
MaxSize == 2
MaxBreakerOps == 9
MaxTicks == 4
MaxRecords == 3
MaxThreadCalls == 4
MaxThreadRecords == 2

\* attempts recorded for one strategy in the drawn selector states
MaxScoreAttempts == 3

\* segments of a list given to _deduplicate_segments
MaxDedupSegs == 4
TickSeconds == 30

(***************************************************************************)
(* Program constants                                                       *)
(***************************************************************************)
CacheCapacity == 10000
FailureThreshold == 5
RecoveryTimeout == 60

(***************************************************************************)
(* Texts                                                                   *)
(***************************************************************************)
Whitespace == {" "}

RECURSIVE LStrip(_)
LStrip(text) ==
    IF text # <<>> /\ Head(text) \in Whitespace THEN LStrip(Tail(text)) ELSE text

RECURSIVE RStrip(_)
RStrip(text) ==
    IF text # <<>> /\ text[Len(text)] \in Whitespace
    THEN RStrip(SubSeq(text, 1, Len(text) - 1))
    ELSE text

\* str.strip()
Strip(text) == RStrip(LStrip(text))

(***************************************************************************)
(* TranslationCache                                                        *)
(***************************************************************************)
\* hashlib.sha256(text.encode('utf-8')).hexdigest()[:16]: a digest of the text
\* exactly as given (no trimming), taken to be collision free.
Sha256Hex16(text) == <<"sha256">> \o text

Fingerprint(text, source, target) ==
    [text_hash |-> Sha256Hex16(text), source_lang |-> source, target_lang |-> target]

NewCache(max_size) ==
    [cache |-> <<>>, max_size |-> max_size, hits |-> 0, misses |-> 0]

\* position of the key in the OrderedDict, 0 when absent
CacheIndex(entries, fp) ==
    IF \E i \in 1..Len(entries) : entries[i].fp = fp
    THEN CHOOSE i \in 1..Len(entries) : entries[i].fp = fp
    ELSE 0

\* OrderedDict.move_to_end(key)
MoveToEnd(entries, i) ==
    SubSeq(entries, 1, i - 1) \o SubSeq(entries, i + 1, Len(entries)) \o <<entries[i]>>

\* OrderedDict.popitem(last=True): what set would do if it evicted the newest entry
PopItemLast(entries) == SubSeq(entries, 1, Len(entries) - 1)

\* OrderedDict.popitem(last=False)
PopItemFirst(entries) == Tail(entries)

\* a capacity test that is off by one
OverCapacityOffByOne(size, max_size) == size > max_size + 1

\* len(self.cache) > self.max_size
OverCapacity(size, max_size) == size > max_size

\* TranslationCache.get: [obj: the cache after the call, found, value]
CacheGet(c, text, source, target) ==
    LET fp == Fingerprint(text, source, target)
        i  == CacheIndex(c.cache, fp)
    IN  IF i # 0
        THEN [obj   |-> [c EXCEPT !.hits = @ + 1, !.cache = MoveToEnd(c.cache, i)],
              found |-> TRUE,
              value |-> c.cache[i].translation]
        ELSE [obj   |-> [c EXCEPT !.misses = @ + 1],
              found |-> FALSE,
              value |-> <<>>]

\* TranslationCache.set: the cache after the call
CacheSet(c, text, source, target, translation) ==
    LET fp       == Fingerprint(text, source, target)
        i        == CacheIndex(c.cache, fp)
        assigned == IF i # 0
                    THEN [c.cache EXCEPT ![i].translation = translation]
                    ELSE Append(c.cache, [fp |-> fp, translation |-> translation])
        moved    == MoveToEnd(assigned, CacheIndex(assigned, fp))
        kept     == IF OverCapacity(Len(moved), c.max_size)
                    THEN PopItemFirst(moved)
                    ELSE moved
    IN  [c EXCEPT !.cache = kept]

CacheKeys(c) == {c.cache[i].fp : i \in 1..Len(c.cache)}

CacheValue(c, fp) == c.cache[CacheIndex(c.cache, fp)].translation

(***************************************************************************)
(* CircuitBreaker                                                          *)
(***************************************************************************)
NoTime == -1

NewBreaker(failure_threshold, recovery_timeout) ==
    [failure_threshold |-> failure_threshold,
     recovery_timeout  |-> recovery_timeout,
     failure_count     |-> 0,
     last_failure_time |-> NoTime,
     state             |-> "CLOSED"]

\* an _on_success that closes a HALF_OPEN breaker but keeps the count
OnSuccessKeepCount(cb) ==
    [cb EXCEPT !.state = IF cb.state = "HALF_OPEN" THEN "CLOSED" ELSE cb.state]

\* an _on_success that resets the count but leaves HALF_OPEN as it is
OnSuccessNoClose(cb) == [cb EXCEPT !.failure_count = 0]

\* an _on_failure that keeps the old last_failure_time
OnFailureKeepTime(cb, t) ==
    LET n == cb.failure_count + 1
    IN  [cb EXCEPT !.failure_count = n,
                   !.state = IF n >= cb.failure_threshold THEN "OPEN" ELSE cb.state]

\* CircuitBreaker._on_success
OnSuccess(cb) ==
    [cb EXCEPT !.failure_count = 0,
               !.state = IF cb.state = "HALF_OPEN" THEN "CLOSED" ELSE cb.state]

\* a threshold test that is off by one
ReachedThresholdOffByOne(count, threshold) == count > threshold

\* self.failure_count >= self.failure_threshold
ReachedThreshold(count, threshold) == count >= threshold

\* CircuitBreaker._on_failure
OnFailure(cb, t) ==
    LET n == cb.failure_count + 1
    IN  [cb EXCEPT !.failure_count = n,
                   !.last_failure_time = t,
                   !.state = IF ReachedThreshold(n, cb.failure_threshold)
                             THEN "OPEN" ELSE cb.state]

\* the OPEN branch of CircuitBreaker.call: TRUE when the call is rejected
Rejects(cb, t) ==
    cb.state = "OPEN" /\ ~(t - cb.last_failure_time >= cb.recovery_timeout)

\* a call whose rejection restarts the open period
BreakerCallRejectStamps(cb, t, fo) ==
    IF cb.state = "OPEN" /\ ~(t - cb.last_failure_time >= cb.recovery_timeout)
    THEN [cb |-> [cb EXCEPT !.last_failure_time = t],
          invoked |-> FALSE, outcome |-> "circuit_open"]
    ELSE LET entered == IF cb.state = "OPEN"
                        THEN [cb EXCEPT !.state = "HALF_OPEN"]
                        ELSE cb
             n       == entered.failure_count + 1
         IN  CASE fo = "ok" ->
                    [cb |-> [entered EXCEPT !.failure_count = 0,
                                            !.state = IF entered.state = "HALF_OPEN"
                                                      THEN "CLOSED" ELSE entered.state],
                     invoked |-> TRUE, outcome |-> "ok"]
               [] fo = "expected" ->
                    [cb |-> [entered EXCEPT !.failure_count = n,
                                            !.last_failure_time = t,
                                            !.state = IF n >= cb.failure_threshold
                                                      THEN "OPEN" ELSE entered.state],
                     invoked |-> TRUE, outcome |-> "expected"]
               [] OTHER ->
                    [cb |-> entered, invoked |-> TRUE, outcome |-> "other"]

\* a call whose handler is `except Exception`: every exception counts as a failure
BreakerCallCountsAll(cb, t, fo) ==
    IF cb.state = "OPEN" /\ ~(t - cb.last_failure_time >= cb.recovery_timeout)
    THEN [cb |-> cb, invoked |-> FALSE, outcome |-> "circuit_open"]
    ELSE LET entered == IF cb.state = "OPEN"
                        THEN [cb EXCEPT !.state = "HALF_OPEN"]
                        ELSE cb
             n       == entered.failure_count + 1
             failed  == [entered EXCEPT !.failure_count = n,
                                        !.last_failure_time = t,
                                        !.state = IF n >= cb.failure_threshold
                                                  THEN "OPEN" ELSE entered.state]
         IN  IF fo = "ok"
             THEN [cb |-> [entered EXCEPT !.failure_count = 0,
                                          !.state = IF entered.state = "HALF_OPEN"
                                                    THEN "CLOSED" ELSE entered.state],
                   invoked |-> TRUE, outcome |-> "ok"]
             ELSE [cb |-> failed, invoked |-> TRUE, outcome |-> fo]

\* CircuitBreaker.call at time t of a function that, if invoked, ends as `fo`:
\* "ok" (returns), "expected" (raises expected_exception) or "other" (raises
\* another exception).  [cb: the breaker after the call, invoked, outcome]
BreakerCall(cb, t, fo) ==
    IF Rejects(cb, t)
    THEN [cb |-> cb, invoked |-> FALSE, outcome |-> "circuit_open"]
    ELSE LET entered == IF cb.state = "OPEN"
                        THEN [cb EXCEPT !.state = "HALF_OPEN"]
                        ELSE cb
         IN  CASE fo = "ok" ->
                    [cb |-> OnSuccess(entered), invoked |-> TRUE, outcome |-> "ok"]
               [] fo = "expected" ->
                    [cb |-> OnFailure(entered, t), invoked |-> TRUE, outcome |-> "expected"]
               [] OTHER ->
                    [cb |-> entered, invoked |-> TRUE, outcome |-> "other"]

(***************************************************************************)
(* Exact arithmetic for the float fields: a number is a reduced fraction   *)
(***************************************************************************)
RECURSIVE GCD(_, _)
GCD(a, b) == IF b = 0 THEN a ELSE GCD(b, a % b)

Abs(x) == IF x < 0 THEN -x ELSE x

Rat(n, d) ==
    LET g == GCD(Abs(n), d)
    IN  [n |-> n \div g, d |-> d \div g]

RatSub(x, y) == Rat(x.n * y.d - y.n * x.d, x.d * y.d)
RatLess(x, y) == x.n * y.d < y.n * x.d
RatMin(x, y) == IF RatLess(y, x) THEN y ELSE x
RatMax(x, y) == IF RatLess(x, y) THEN y ELSE x

(***************************************************************************)
(* BatchMetrics and StrategySelector                                       *)
(***************************************************************************)
NewBatchMetrics ==
    [attempts |-> 0, successes |-> 0, failures |-> 0,
     avg_latency |-> Rat(0, 1), mismatch_count |-> 0]

\* BatchMetrics.success_rate
SuccessRate(m) ==
    IF m.attempts > 0 THEN Rat(m.successes, m.attempts) ELSE Rat(0, 1)

\* a reliability_score without the max(0.0, ...) around the difference
ReliabilityScoreNoFloor(m) ==
    IF m.attempts < 3
    THEN Rat(1, 2)
    ELSE RatSub(RatSub(SuccessRate(m),
                       RatMin(Rat(3, 10), Rat(m.mismatch_count, 10))),
                RatMin(Rat(1, 5), Rat(m.avg_latency.n, m.avg_latency.d * 30)))

\* BatchMetrics.reliability_score
ReliabilityScore(m) ==
    IF m.attempts < 3
    THEN Rat(1, 2)
    ELSE LET base_score       == SuccessRate(m)
             mismatch_penalty == RatMin(Rat(3, 10), Rat(m.mismatch_count, 10))
             latency_penalty  == RatMin(Rat(1, 5),
                                        Rat(m.avg_latency.n, m.avg_latency.d * 30))
         IN  RatMax(Rat(0, 1),
                    RatSub(RatSub(base_score, mismatch_penalty), latency_penalty))

\* StrategySelector._key
MetricsKey(source, target, strategy) == <<source, target, strategy>>

\* StrategySelector.record_attempt: the metrics map after the call
RecordAttempt(metrics, source, target, strategy, success, latency, had_mismatch) ==
    LET key == MetricsKey(source, target, strategy)
        m   == IF key \in DOMAIN metrics THEN metrics[key] ELSE NewBatchMetrics
        k   == m.attempts + 1
        upd == [attempts       |-> k,
                successes      |-> m.successes + (IF success THEN 1 ELSE 0),
                failures       |-> m.failures + (IF success THEN 0 ELSE 1),
                mismatch_count |-> m.mismatch_count + (IF had_mismatch THEN 1 ELSE 0),
                avg_latency    |-> Rat(m.avg_latency.n * (k - 1) + latency * m.avg_latency.d,
                                       m.avg_latency.d * k)]
    IN  [x \in DOMAIN metrics \cup {key} |-> IF x = key THEN upd ELSE metrics[x]]

\* default scores with the priors of DELIMITER and INDIVIDUAL exchanged
DefaultScoreBatchFirst(strategy) ==
    CASE strategy = "JSON_ARRAY" -> Rat(8, 10)
      [] strategy = "DELIMITER"  -> Rat(9, 10)
      [] strategy = "INDIVIDUAL" -> Rat(6, 10)
      [] OTHER                   -> Rat(1, 2)

\* the scores given to strategies of a pair that has no metrics yet
DefaultScore(strategy) ==
    CASE strategy = "JSON_ARRAY" -> Rat(8, 10)
      [] strategy = "DELIMITER"  -> Rat(6, 10)
      [] strategy = "INDIVIDUAL" -> Rat(9, 10)
      [] OTHER                   -> Rat(1, 2)

PreferredOrder(segment_count) ==
    IF segment_count <= 5
    THEN <<"DELIMITER", "INDIVIDUAL">>
    ELSE <<"JSON_ARRAY", "DELIMITER", "INDIVIDUAL">>

StrategyScore(metrics, source, target, strategy) ==
    LET key == MetricsKey(source, target, strategy)
    IN  IF key \in DOMAIN metrics
        THEN ReliabilityScore(metrics[key])
        ELSE DefaultScore(strategy)

\* StrategySelector.get_best_strategy; max() keeps the first of equal scores
GetBestStrategy(metrics, source, target, segment_count) ==
    IF segment_count = 1
    THEN "INDIVIDUAL"
    ELSE LET order    == PreferredOrder(segment_count)
             score(i) == StrategyScore(metrics, source, target, order[i])
             best     == CHOOSE i \in 1..Len(order) :
                            /\ \A j \in 1..Len(order) : ~RatLess(score(i), score(j))
                            /\ \A j \in 1..(i - 1) : RatLess(score(j), score(i))
         IN  order[best]

(***************************************************************************)
(* The remote translation provider (POST /translate)                       *)
(***************************************************************************)
\* a list with a fourth delimiter
DelimitersFour == <<"D0", "D1", "D2", "D3">>

\* TranslationService.DELIMITERS, each one token
Delimiters == <<"D0", "D1", "D2">>

DelimiterTokens == {Delimiters[i] : i \in 1..Len(Delimiters)}

\* a request ends with a 200 response, whose text keeps, drops or doubles the
\* delimiters of the request, or it fails
RemoteModes == {"faithful", "drop_delimiters", "double_delimiters"}
RemoteFailures == {"timeout", "connection", "http_error", "empty"}
RemoteOutcomes == RemoteModes \cup RemoteFailures

\* what the provider makes of one character
TranslateChar(c, target) ==
    IF c \in Whitespace \cup DelimiterTokens
    THEN c
    ELSE CASE target = "es" -> (IF c = "a" THEN "A" ELSE "B")
           [] target = "fr" -> (IF c = "a" THEN "X" ELSE "Y")
           [] OTHER         -> c

RECURSIVE RemoteResponse(_, _, _)
RemoteResponse(q, target, mode) ==
    IF q = <<>>
    THEN <<>>
    ELSE LET c    == Head(q)
             rest == RemoteResponse(Tail(q), target, mode)
         IN  IF c \in DelimiterTokens
             THEN CASE mode = "drop_delimiters"   -> <<" ">> \o rest
                    [] mode = "double_delimiters" -> <<c, c>> \o rest
                    [] OTHER                      -> <<c>> \o rest
             ELSE <<TranslateChar(c, target)>> \o rest

\* delimiter.join(texts)
RECURSIVE Join(_, _)
Join(delimiter, texts) ==
    IF texts = <<>> THEN <<>>
    ELSE IF Len(texts) = 1 THEN texts[1]
    ELSE texts[1] \o <<delimiter>> \o Join(delimiter, Tail(texts))

\* text.split(delimiter)
RECURSIVE Split(_, _)
Split(text, delimiter) ==
    IF \E i \in 1..Len(text) : text[i] = delimiter
    THEN LET i == CHOOSE i \in 1..Len(text) :
                    /\ text[i] = delimiter
                    /\ \A j \in 1..(i - 1) : text[j] # delimiter
         IN  <<SubSeq(text, 1, i - 1)>> \o Split(SubSeq(text, i + 1, Len(text)), delimiter)
    ELSE <<text>>

\* except TranslationError: a handler that lets the breaker's plain Exception through
ExceptTranslationError(exc) == exc = "TranslationError"

\* except Exception
ExceptException(exc) == exc \in {"TranslationError", "Exception"}

\* TranslationService._translate_single_uncached, the provider answering `ro`:
\* [raised, value, posted: whether a request was sent]
TranslateSingleUncached(text, source, target, ro) ==
    IF text = <<>> \/ Strip(text) = <<>>
    THEN [raised |-> "none", value |-> text, posted |-> FALSE]
    ELSE IF source = target
    THEN [raised |-> "none", value |-> text, posted |-> FALSE]
    ELSE IF ro \in RemoteFailures
    THEN [raised |-> "TranslationError", value |-> <<>>, posted |-> TRUE]
    ELSE LET translated == Strip(RemoteResponse(text, target, ro))
         IN  IF translated # <<>>
             THEN [raised |-> "none", value |-> translated, posted |-> TRUE]
             ELSE [raised |-> "TranslationError", value |-> <<>>, posted |-> TRUE]

(***************************************************************************)
(* TranslationService                                                      *)
(***************************************************************************)
SupportedLanguages ==
    {"en", "es", "fr", "de", "zh", "ar", "pt", "ru", "ja", "it", "nl", "ko"}

\* a catalog test that accepts every code
IsSupportedAlways(target) == TRUE

\* target_lang in self.supported_languages
IsSupported(target) == target \in SupportedLanguages

\* a comparison that never finds the languages equal
SameLanguageNever(source, target) == FALSE

\* source_lang == target_lang
SameLanguage(source, target) == source = target

\* an entry of `result` that was never assigned ([None] * total_segments)
NoneSegment == [start |-> -1, end |-> -1, text |-> <<"None">>]

\* a membership test that finds every text new (no deduplication)
IsNewTextAlways(text, text_to_indices) == TRUE

\* text not in text_to_indices
IsNewText(text, text_to_indices) == text \notin DOMAIN text_to_indices

\* an append of positions counted from 1
AppendIndexFromOne(indices, idx) == Append(indices, idx + 1)

\* an append that keeps only the first index of a text
AppendFirstIndexOnly(indices, idx) == IF indices = <<>> THEN <<idx>> ELSE indices

\* text_to_indices[text].append(idx)
AppendIndex(indices, idx) == Append(indices, idx)

\* the loop of _deduplicate_segments from position p on (idx = p - 1)
RECURSIVE DedupLoop(_, _, _, _)
DedupLoop(segments, p, unique_segments, text_to_indices) ==
    IF p > Len(segments)
    THEN [unique_segments |-> unique_segments, text_to_indices |-> text_to_indices]
    ELSE LET text   == Strip(segments[p].text)
             fresh  == IsNewText(text, text_to_indices)
             before == IF fresh THEN <<>> ELSE text_to_indices[text]
             map    == [x \in DOMAIN text_to_indices \cup {text} |->
                          IF x = text THEN AppendIndex(before, p - 1)
                          ELSE text_to_indices[x]]
         IN  DedupLoop(segments, p + 1,
                       IF fresh THEN Append(unique_segments, segments[p])
                       ELSE unique_segments,
                       map)

\* TranslationService._deduplicate_segments
Deduplicate(segments) == DedupLoop(segments, 1, <<>>, <<>>)

\* a fallback that stores the original text as if it were a translation
FallbackCacheStored(c, text, source, target) == CacheSet(c, text, source, target, text)

\* the cache after `except Exception: ... return text` of _translate_single:
\* nothing is set
FallbackCache(c, text, source, target) == c

\* TranslationService._translate_single at time t, the provider answering `ro`:
\* [cache, cb, gm, raised, value, posted, ok: a request was sent and succeeded]
TranslateSingle(c, cb, gm, t, text, source, target, ro) ==
    LET got == CacheGet(c, text, source, target)
    IN  IF got.found
        THEN [cache |-> got.obj, cb |-> cb,
              gm |-> [gm EXCEPT !.cache_hits = @ + 1],
              raised |-> "none", value |-> got.value, posted |-> FALSE, ok |-> FALSE]
        ELSE LET u  == TranslateSingleUncached(text, source, target, ro)
                 r  == BreakerCall(cb, t, IF u.raised = "none" THEN "ok" ELSE "expected")
                 ex == IF r.invoked THEN u.raised ELSE "Exception"
             IN  IF ex = "none"
                 THEN [cache |-> CacheSet(got.obj, text, source, target, u.value),
                       cb |-> r.cb, gm |-> gm, raised |-> "none", value |-> u.value,
                       posted |-> u.posted, ok |-> u.posted]
                 ELSE [cache |-> FallbackCache(got.obj, text, source, target),
                       cb |-> r.cb, gm |-> gm,
                       raised |-> IF ExceptException(ex) THEN "none" ELSE ex,
                       value |-> text,
                       posted |-> r.invoked /\ u.posted, ok |-> FALSE]

\* a lookup that treats every text as missing
IsCachedNever(got) == FALSE

\* cached is not None
IsCached(got) == got.found

\* the cache lookup loop of translate_segments (step 2) from position p on
RECURSIVE LookupLoop(_, _, _, _, _, _, _)
LookupLoop(c, unique_segments, p, source, target, to_translate, cached_translations) ==
    IF p > Len(unique_segments)
    THEN [cache |-> c, to_translate |-> to_translate,
          cached_translations |-> cached_translations]
    ELSE LET seg  == unique_segments[p]
             text == Strip(seg.text)
             got  == CacheGet(c, text, source, target)
         IN  IF IsCached(got)
             THEN LookupLoop(got.obj, unique_segments, p + 1, source, target, to_translate,
                             [x \in DOMAIN cached_translations \cup {text} |->
                                IF x = text THEN got.value ELSE cached_translations[x]])
             ELSE LookupLoop(got.obj, unique_segments, p + 1, source, target,
                             Append(to_translate, seg), cached_translations)

Min(a, b) == IF a < b THEN a ELSE b

\* "Store translations": cached_translations after zip(to_translate, translated)
RECURSIVE StoreTranslations(_, _, _, _)
StoreTranslations(cached_translations, to_translate, translated, p) ==
    IF p > Min(Len(to_translate), Len(translated))
    THEN cached_translations
    ELSE LET text == Strip(to_translate[p].text)
         IN  StoreTranslations(
                 [x \in DOMAIN cached_translations \cup {text} |->
                    IF x = text THEN translated[p].text ELSE cached_translations[x]],
                 to_translate, translated, p + 1)

\* step 4 of translate_segments: the result list
Reconstruct(segments, text_to_indices, cached_translations) ==
    [p \in 1..Len(segments) |->
        IF \E text \in DOMAIN text_to_indices :
              \E k \in 1..Len(text_to_indices[text]) : text_to_indices[text][k] = p - 1
        THEN LET text == CHOOSE text \in DOMAIN text_to_indices :
                            \E k \in 1..Len(text_to_indices[text]) :
                                text_to_indices[text][k] = p - 1
             IN  [start |-> segments[p].start,
                  end   |-> segments[p].end,
                  text  |-> IF text \in DOMAIN cached_translations
                            THEN cached_translations[text] ELSE text]
        ELSE NoneSegment]

\* a delimiter batch that returns its result without caching it
CacheSetNone(c, segs, parts, source, target, p) == c

\* the cache writes of a delimiter batch whose split count matched
RECURSIVE CacheSetAll(_, _, _, _, _, _)
CacheSetAll(c, segs, parts, source, target, p) ==
    IF p > Len(segs)
    THEN c
    ELSE CacheSetAll(CacheSet(c, Strip(segs[p].text), source, target, Strip(parts[p])),
                     segs, parts, source, target, p + 1)

(***************************************************************************)
(* Initial state: the objects as TranslationService.__init__ builds them   *)
(***************************************************************************)
IdleCall == [pc |-> "idle"]

NoObs == [op |-> "none"]

InitService ==
    /\ strategy_metrics = <<>>
    /\ circuit_breaker = NewBreaker(FailureThreshold, RecoveryTimeout)
    /\ global_metrics = [total_segments |-> 0, unique_segments |-> 0,
                         cache_hits |-> 0, total_time |-> 0]
    /\ now = 0
    /\ call = IdleCall

(***************************************************************************)
(* SpecCache: one TranslationCache(max_size = MaxSize) under get and set   *)
(***************************************************************************)
CacheTexts == {<<"a">>, <<"b">>, <<"c">>}
CacheKeyArgs ==
    {<<t, "en", "es">> : t \in CacheTexts} \cup {<<<<"a">>, "en", "fr">>}
CacheTranslations == {<<"A">>, <<"B">>}

InitCache ==
    /\ InitService
    /\ cache = NewCache(MaxSize)
    /\ obs = [op |-> "none", hist |-> <<>>, lastUse |-> <<>>]

\* keys in use order: lastUse is the sequence of uses, most recent last
CacheGetOp(k) ==
    /\ Len(obs.hist) < MaxCacheOps
    /\ LET r == CacheGet(cache, k[1], k[2], k[3])
       IN  /\ cache' = r.obj
           /\ obs' = [op |-> "get", key |-> k, found |-> r.found, value |-> r.value,
                      hist |-> Append(obs.hist, <<"get", k>>),
                      lastUse |-> IF r.found
                                  THEN Append(obs.lastUse, Fingerprint(k[1], k[2], k[3]))
                                  ELSE obs.lastUse]
    /\ UNCHANGED <<strategy_metrics, circuit_breaker, global_metrics, now, call>>

CacheSetOp(k, translation) ==
    /\ Len(obs.hist) < MaxCacheOps
    /\ cache' = CacheSet(cache, k[1], k[2], k[3], translation)
    /\ obs' = [op |-> "set", key |-> k, found |-> FALSE, value |-> translation,
               hist |-> Append(obs.hist, <<"set", k>>),
               lastUse |-> Append(obs.lastUse, Fingerprint(k[1], k[2], k[3]))]
    /\ UNCHANGED <<strategy_metrics, circuit_breaker, global_metrics, now, call>>

NextCache ==
    \/ \E k \in CacheKeyArgs : CacheGetOp(k)
    \/ \E k \in CacheKeyArgs, translation \in CacheTranslations : CacheSetOp(k, translation)

SpecCache == InitCache /\ [][NextCache]_vars

KeyA == <<<<"a">>, "en", "es">>
KeyB == <<<<"b">>, "en", "es">>
KeyC == <<<<"c">>, "en", "es">>

FpOf(k) == Fingerprint(k[1], k[2], k[3])

\* the position of the most recent use (a get hit or a set) of fp in the run
LastUseIndex(fp) ==
    CHOOSE i \in 1..Len(obs.lastUse) :
        /\ obs.lastUse[i] = fp
        /\ \A j \in (i + 1)..Len(obs.lastUse) : obs.lastUse[j] # fp

\* the resident key whose most recent use is the oldest
LeastRecentlyUsed ==
    CHOOSE fp \in CacheKeys(cache) :
        \A other \in CacheKeys(cache) : LastUseIndex(fp) <= LastUseIndex(other)

\* C8: after any sequence of get and set operations the cache holds at most
\* max_size entries.
C8_CacheBounded == Len(cache.cache) <= cache.max_size

\* more distinct keys were set than the cache can hold, and it is full
C8_Witness ==
    /\ obs.op = "set"
    /\ Len(cache.cache) = cache.max_size
    /\ Cardinality({obs.hist[i][2] : i \in {j \in 1..Len(obs.hist) : obs.hist[j][1] = "set"}})
         > cache.max_size

C9_Step ==
    /\ (/\ obs'.op = "set"
        /\ FpOf(obs'.key) \notin CacheKeys(cache)
        /\ Len(cache.cache) = cache.max_size)
       => /\ CacheKeys(cache') =
                (CacheKeys(cache) \ {LeastRecentlyUsed}) \cup {FpOf(obs'.key)}
          /\ Len(cache'.cache) = Len(cache.cache)
          /\ CacheValue(cache', FpOf(obs'.key)) = obs'.value
          /\ \A fp \in CacheKeys(cache) \ {LeastRecentlyUsed} :
                CacheValue(cache', fp) = CacheValue(cache, fp)
    /\ (/\ cache.max_size = 2
        /\ obs'.hist = <<<<"set", KeyA>>, <<"set", KeyB>>, <<"set", KeyC>>>>)
       => /\ ~CacheGet(cache', KeyA[1], KeyA[2], KeyA[3]).found
          /\ CacheGet(cache', KeyB[1], KeyB[2], KeyB[3]).found
          /\ CacheGet(cache', KeyC[1], KeyC[2], KeyC[3]).found
    /\ (/\ cache.max_size = 2
        /\ obs'.hist = <<<<"set", KeyA>>, <<"set", KeyB>>, <<"get", KeyA>>, <<"set", KeyC>>>>)
       => /\ ~CacheGet(cache', KeyB[1], KeyB[2], KeyB[3]).found
          /\ CacheGet(cache', KeyA[1], KeyA[2], KeyA[3]).found
          /\ CacheGet(cache', KeyC[1], KeyC[2], KeyC[3]).found

\* C9: a set of a new key into a full cache evicts exactly the entry whose most
\* recent use (get hit or set) is the oldest and keeps every other entry with
\* its value; with capacity 2, set A, set B, set C evicts A, and set A, set B,
\* get A, set C evicts B.
C9_LruEviction == [][C9_Step]_vars

\* capacity 2: set A, set B, get A, set C has evicted B
C9_Witness ==
    /\ cache.max_size = 2
    /\ obs.hist = <<<<"set", KeyA>>, <<"set", KeyB>>, <<"get", KeyA>>, <<"set", KeyC>>>>
    /\ CacheKeys(cache) = {FpOf(KeyA), FpOf(KeyC)}

(***************************************************************************)
(* SpecCacheTexts: the same cache under get and set of texts that differ   *)
(* only by surrounding whitespace, and of one text for a second pair       *)
(***************************************************************************)
PaddedKeyArgs ==
    {<<t, "en", "es">> : t \in {<<"a">>, <<" ", "a">>, <<"a", " ">>, <<"b">>}}
        \cup {<<<<"a">>, "en", "fr">>}

NextCacheTexts ==
    \/ \E k \in PaddedKeyArgs : CacheGetOp(k)
    \/ \E k \in PaddedKeyArgs, translation \in CacheTranslations :
          CacheSetOp(k, translation)

SpecCacheTexts == InitCache /\ [][NextCacheTexts]_vars

\* same trimmed content and same language pair
SameContent(k1, k2) ==
    Strip(k1[1]) = Strip(k2[1]) /\ k1[2] = k2[2] /\ k1[3] = k2[3]

C31_Step ==
    \* a get right after a set of the same content returns what was set
    /\ (obs.op = "set" /\ obs'.op = "get" /\ SameContent(obs.key, obs'.key)) =>
          (obs'.found /\ obs'.value = obs.value)
    \* a get finds only what was set for the same content and pair
    /\ (obs'.op = "get" /\ obs'.found) =>
          \E i \in 1..Len(obs.hist) :
              obs.hist[i][1] = "set" /\ SameContent(obs.hist[i][2], obs'.key)

\* C31: two texts with identical trimmed content and the same language pair
\* always produce the same fingerprint: a translation stored by set for a
\* text is returned by get for any text that differs from it only by
\* surrounding whitespace, and never for a different language pair.
C31_TrimmedFingerprint == [][C31_Step]_vars

\* the part of C31 that holds: a get never returns a translation stored for
\* a different text or a different language pair
C31_NoForeignHit ==
    (obs.op = "get" /\ obs.found) =>
        \E i \in 1..(Len(obs.hist) - 1) :
            obs.hist[i][1] = "set" /\ obs.hist[i][2] = obs.key

(***************************************************************************)
(* SpecCacheThreads: one TranslationCache(max_size = MaxSize) called from  *)
(* two threads.  The methods take no lock, so a thread can be preempted    *)
(* between any two statements (and between the load and the store of +=);  *)
(* call[t] is the position and the locals of thread t.                     *)
(***************************************************************************)
Threads == {"t1", "t2"}

ThreadKeyArgs == {KeyA, KeyB, KeyC}

InitCacheThreads ==
    /\ strategy_metrics = <<>>
    /\ circuit_breaker = NewBreaker(FailureThreshold, RecoveryTimeout)
    /\ global_metrics = [total_segments |-> 0, unique_segments |-> 0,
                         cache_hits |-> 0, total_time |-> 0]
    /\ now = 0
    /\ call = [t \in Threads |-> IdleCall]
    /\ cache = NewCache(MaxSize)
    /\ obs = [op |-> "none", thread |-> "none", raised |-> "none", calls |-> 0]

\* the call of thread t has returned (raised = "none") or raised
ThreadReturn(t, op, raised) ==
    /\ call' = [call EXCEPT ![t] = IdleCall]
    /\ obs' = [obs EXCEPT !.op = op, !.thread = t, !.raised = raised]

ThreadGoto(t, pc) ==
    /\ call' = [call EXCEPT ![t].pc = pc]
    /\ UNCHANGED obs

\* thread t enters TranslationCache.get: fp = self._fingerprint(...)
GetCall(t, k) ==
    /\ call[t].pc = "idle"
    /\ obs.calls < MaxThreadCalls
    /\ call' = [call EXCEPT ![t] = [pc |-> "get_test", fp |-> FpOf(k), loaded |-> 0]]
    /\ obs' = [obs EXCEPT !.op = "call", !.thread = t, !.raised = "none", !.calls = @ + 1]
    /\ UNCHANGED <<cache, strategy_metrics, circuit_breaker, global_metrics, now>>

\* the next statement of TranslationCache.get in thread t
GetStep(t) ==
    /\ UNCHANGED <<strategy_metrics, circuit_breaker, global_metrics, now>>
    /\ LET fp == call[t].fp
           i  == CacheIndex(cache.cache, fp)
       IN  CASE call[t].pc = "get_test" ->          \* if fp in self.cache:
                  /\ ThreadGoto(t, IF i # 0 THEN "get_hits" ELSE "get_misses")
                  /\ UNCHANGED cache
             [] call[t].pc = "get_hits" ->          \* self.hits += 1 (load)
                  /\ call' = [call EXCEPT ![t].pc = "get_hits_store", ![t].loaded = cache.hits]
                  /\ UNCHANGED <<cache, obs>>
             [] call[t].pc = "get_hits_store" ->    \* self.hits += 1 (store)
                  /\ cache' = [cache EXCEPT !.hits = call[t].loaded + 1]
                  /\ ThreadGoto(t, "get_move")
             [] call[t].pc = "get_move" ->          \* self.cache.move_to_end(fp)
                  IF i # 0
                  THEN /\ cache' = [cache EXCEPT !.cache = MoveToEnd(cache.cache, i)]
                       /\ ThreadGoto(t, "get_return")
                  ELSE /\ ThreadReturn(t, "get", "KeyError")
                       /\ UNCHANGED cache
             [] call[t].pc = "get_return" ->        \* return self.cache[fp]
                  /\ ThreadReturn(t, "get", IF i # 0 THEN "none" ELSE "KeyError")
                  /\ UNCHANGED cache
             [] call[t].pc = "get_misses" ->        \* self.misses += 1 (load)
                  /\ call' = [call EXCEPT ![t].pc = "get_misses_store",
                                          ![t].loaded = cache.misses]
                  /\ UNCHANGED <<cache, obs>>
             [] call[t].pc = "get_misses_store" ->  \* self.misses += 1 (store); return None
                  /\ cache' = [cache EXCEPT !.misses = call[t].loaded + 1]
                  /\ ThreadReturn(t, "get", "none")
             [] OTHER -> FALSE

\* thread t enters TranslationCache.set
SetCall(t, k, translation) ==
    /\ call[t].pc = "idle"
    /\ obs.calls < MaxThreadCalls
    /\ call' = [call EXCEPT ![t] = [pc |-> "set_assign", fp |-> FpOf(k),
                                    translation |-> translation]]
    /\ obs' = [obs EXCEPT !.op = "call", !.thread = t, !.raised = "none", !.calls = @ + 1]
    /\ UNCHANGED <<cache, strategy_metrics, circuit_breaker, global_metrics, now>>

\* the next statement of TranslationCache.set in thread t
SetStep(t) ==
    /\ UNCHANGED <<strategy_metrics, circuit_breaker, global_metrics, now>>
    /\ LET fp == call[t].fp
           i  == CacheIndex(cache.cache, fp)
       IN  CASE call[t].pc = "set_assign" ->        \* self.cache[fp] = translation
                  /\ cache' = [cache EXCEPT !.cache =
                                  IF i # 0
                                  THEN [cache.cache EXCEPT ![i].translation = call[t].translation]
                                  ELSE Append(cache.cache,
                                              [fp |-> fp, translation |-> call[t].translation])]
                  /\ ThreadGoto(t, "set_move")
             [] call[t].pc = "set_move" ->          \* self.cache.move_to_end(fp)
                  IF i # 0
                  THEN /\ cache' = [cache EXCEPT !.cache = MoveToEnd(cache.cache, i)]
                       /\ ThreadGoto(t, "set_test")
                  ELSE /\ ThreadReturn(t, "set", "KeyError")
                       /\ UNCHANGED cache
             [] call[t].pc = "set_test" ->          \* if len(self.cache) > self.max_size:
                  /\ UNCHANGED cache
                  /\ IF OverCapacity(Len(cache.cache), cache.max_size)
                     THEN ThreadGoto(t, "set_pop")
                     ELSE ThreadReturn(t, "set", "none")
             [] call[t].pc = "set_pop" ->           \* self.cache.popitem(last=False)
                  IF cache.cache # <<>>
                  THEN /\ cache' = [cache EXCEPT !.cache = PopItemFirst(cache.cache)]
                       /\ ThreadReturn(t, "set", "none")
                  ELSE /\ ThreadReturn(t, "set", "KeyError")
                       /\ UNCHANGED cache
             [] OTHER -> FALSE

NextCacheThreads ==
    \/ \E t \in Threads, k \in ThreadKeyArgs : GetCall(t, k)
    \/ \E t \in Threads : GetStep(t)
    \/ \E t \in Threads, k \in ThreadKeyArgs : SetCall(t, k, <<"A">>)
    \/ \E t \in Threads : SetStep(t)

SpecCacheThreads == InitCacheThreads /\ [][NextCacheThreads]_vars

\* no thread is inside TranslationCache.set
NoSetInProgress ==
    \A t \in Threads : call[t].pc \notin {"set_assign", "set_move", "set_test", "set_pop"}

\* C15: under any interleaving of get and set calls of different threads on one
\* TranslationCache every call behaves as if it ran atomically: no get fails
\* because another thread evicted the entry between its membership test and
\* its promotion or read, and the size is at most max_size whenever no set is
\* in progress.
C15_AtomicCacheCalls ==
    /\ ~(obs.op = "get" /\ obs.raised = "KeyError")
    /\ NoSetInProgress => Len(cache.cache) <= cache.max_size

(***************************************************************************)
(* SpecBreaker: one CircuitBreaker(5, 60.0) protecting an arbitrary        *)
(* function, and the clock                                                 *)
(***************************************************************************)
FunctionOutcomes == {"ok", "expected", "other"}

InitBreaker ==
    /\ InitService
    /\ cache = NewCache(CacheCapacity)
    /\ obs = [op |-> "none", outcome |-> "none", calls |-> 0, invocations |-> 0,
              streak |-> 0, failures |-> 0, since_success |-> 0,
              last_real_failure |-> NoTime]

\* time passes between two requests.  The clock decides something only when
\* CircuitBreaker.call finds the breaker OPEN, so it is advanced only then.
Tick ==
    /\ call.pc = "idle"
    /\ circuit_breaker.state = "OPEN"
    /\ now < MaxTicks * TickSeconds
    /\ now' = now + TickSeconds
    /\ obs' = [obs EXCEPT !.op = "tick"]
    /\ UNCHANGED <<cache, strategy_metrics, circuit_breaker, global_metrics, call>>

\* streak: the number of consecutive calls, up to the last one, in which the
\* function was invoked and raised the expected exception; failures: the
\* number of calls that raised it; since_success: those since the last call
\* that returned
BreakerCallOp(fo) ==
    /\ obs.calls < MaxBreakerOps
    /\ LET r == BreakerCall(circuit_breaker, now, fo)
       IN  /\ circuit_breaker' = r.cb
           /\ obs' = [op |-> "call", outcome |-> r.outcome, calls |-> obs.calls + 1,
                      invocations |-> obs.invocations + (IF r.invoked THEN 1 ELSE 0),
                      streak |-> CASE r.outcome = "expected" -> obs.streak + 1
                                   [] r.outcome = "circuit_open" -> obs.streak
                                   [] OTHER -> 0,
                      failures |-> obs.failures + (IF r.outcome = "expected" THEN 1 ELSE 0),
                      since_success |-> CASE r.outcome = "expected" -> obs.since_success + 1
                                          [] r.outcome = "ok" -> 0
                                          [] OTHER -> obs.since_success,
                      last_real_failure |-> IF r.outcome = "expected"
                                            THEN now ELSE obs.last_real_failure]
    /\ UNCHANGED <<cache, strategy_metrics, global_metrics, now, call>>

NextBreaker ==
    \/ \E fo \in FunctionOutcomes : BreakerCallOp(fo)
    \/ Tick

SpecBreaker == InitBreaker /\ [][NextBreaker]_vars

C10_Step ==
    obs'.op = "call" =>
        /\ obs'.streak >= FailureThreshold => circuit_breaker'.state = "OPEN"
        /\ (/\ circuit_breaker.state = "OPEN"
            /\ now - circuit_breaker.last_failure_time < RecoveryTimeout)
           => /\ obs'.outcome = "circuit_open"
              /\ obs'.invocations = obs.invocations
              /\ circuit_breaker' = circuit_breaker

\* C10: from CLOSED with failure_count 0, failure_threshold consecutive failing
\* calls leave the breaker OPEN, and every call made before recovery_timeout has
\* elapsed since the last failure is rejected with the circuit-open error
\* without invoking the protected function.
C10_OpensAndRejects == [][C10_Step]_vars

\* five failing calls, then a sixth call rejected: the function ran five times
C10_Witness ==
    /\ obs.op = "call"
    /\ obs.calls = FailureThreshold + 1
    /\ obs.invocations = FailureThreshold
    /\ obs.streak = FailureThreshold
    /\ obs.outcome = "circuit_open"
    /\ circuit_breaker.state = "OPEN"

\* streak, failures and since_success are as above; last_real_failure: the time
\* of the last call in which the function raised the expected exception
\* the breaker is OPEN and recovery_timeout has elapsed since the last failure
RecoveryDue ==
    /\ circuit_breaker.state = "OPEN"
    /\ now - circuit_breaker.last_failure_time >= RecoveryTimeout

C11_Step ==
    (obs'.op = "call" /\ RecoveryDue) =>
        /\ obs'.invocations = obs.invocations + 1
        /\ obs'.outcome \in FunctionOutcomes
        /\ obs'.outcome = "ok" =>
              /\ circuit_breaker'.state = "CLOSED"
              /\ circuit_breaker'.failure_count = 0
        \* the trial ran in HALF_OPEN: an exception that is not counted leaves it there
        /\ obs'.outcome = "other" => circuit_breaker'.state = "HALF_OPEN"

\* C11: when the breaker is OPEN and now - last_failure_time >= recovery_timeout,
\* the next call moves it to HALF_OPEN and invokes the protected function; if
\* that trial call succeeds the breaker is CLOSED with failure_count = 0.
C11_Recovery == [][C11_Step]_vars

\* opened at time 0, a trial call at time recovery_timeout that succeeded
C11_Witness ==
    /\ obs.op = "call"
    /\ obs.outcome = "ok"
    /\ obs.calls = FailureThreshold + 1
    /\ obs.invocations = FailureThreshold + 1
    /\ now >= RecoveryTimeout
    /\ circuit_breaker.state = "CLOSED"
    /\ circuit_breaker.failure_count = 0
    /\ circuit_breaker.last_failure_time = 0

\* a trial call: one that finds the breaker HALF_OPEN, or OPEN with the
\* recovery timeout elapsed (and so enters HALF_OPEN before invoking)
TrialDue == circuit_breaker.state = "HALF_OPEN" \/ RecoveryDue

C19_Step ==
    /\ (obs'.op = "call" /\ TrialDue /\ obs'.outcome = "expected") =>
          /\ circuit_breaker'.state = "OPEN"
          /\ circuit_breaker'.last_failure_time = now
    \* and from then on calls are rejected until a full timeout has elapsed
    /\ (/\ obs'.op = "call"
        /\ obs.op = "call" /\ obs.outcome = "expected"
        /\ circuit_breaker.state = "OPEN"
        /\ now - circuit_breaker.last_failure_time < RecoveryTimeout) =>
          /\ obs'.outcome = "circuit_open"
          /\ obs'.invocations = obs.invocations

\* C19: a failing trial call in HALF_OPEN leaves the breaker OPEN with
\* last_failure_time set to the time of that failure, so that calls are again
\* rejected until a full recovery_timeout has elapsed.
C19_FailedTrialReopens == [][C19_Step]_vars

\* a trial at time recovery_timeout failed, and a later call, made before another
\* recovery_timeout had elapsed, was rejected
C19_Witness ==
    /\ obs.op = "call"
    /\ obs.outcome = "circuit_open"
    /\ obs.calls = FailureThreshold + 2
    /\ obs.invocations = FailureThreshold + 1
    /\ circuit_breaker.state = "OPEN"
    /\ circuit_breaker.failure_count = FailureThreshold + 1
    /\ circuit_breaker.last_failure_time = RecoveryTimeout
    /\ now > RecoveryTimeout

C21_Step ==
    obs'.op = "call" =>
        /\ obs'.outcome = "ok" => circuit_breaker'.failure_count = 0
        /\ circuit_breaker'.state = "OPEN" => obs'.since_success >= FailureThreshold

\* C21: a successful call in CLOSED or HALF_OPEN sets failure_count to 0, so
\* the breaker opens only after failure_threshold failures with no successful
\* call in between (4 failures, 1 success, 4 failures leave it CLOSED).
C21_SuccessResets == [][C21_Step]_vars

\* eight failures with one success after the fourth, and the breaker is CLOSED
C21_Witness ==
    /\ obs.op = "call"
    /\ obs.calls = 2 * (FailureThreshold - 1) + 1
    /\ obs.invocations = obs.calls
    /\ obs.failures = 2 * (FailureThreshold - 1)
    /\ obs.since_success = FailureThreshold - 1
    /\ obs.streak = FailureThreshold - 1
    /\ circuit_breaker.state = "CLOSED"
    /\ circuit_breaker.failure_count = FailureThreshold - 1

C22_Step ==
    (obs'.op = "call" /\ obs'.outcome = "other") =>
        /\ obs'.invocations = obs.invocations + 1
        /\ circuit_breaker'.failure_count = circuit_breaker.failure_count
        /\ circuit_breaker'.last_failure_time = circuit_breaker.last_failure_time
        /\ circuit_breaker'.state # "OPEN"

\* C22: only exceptions of the expected_exception type count toward
\* failure_count: an exception of another type raised by the protected
\* function propagates to the caller, leaves failure_count and
\* last_failure_time unchanged and never opens the breaker.
C22_OnlyExpectedCounts == [][C22_Step]_vars

\* four counted failures, then an exception of another type: still CLOSED at 4
C22_Witness ==
    /\ obs.op = "call"
    /\ obs.outcome = "other"
    /\ obs.calls = FailureThreshold
    /\ obs.failures = FailureThreshold - 1
    /\ circuit_breaker.state = "CLOSED"
    /\ circuit_breaker.failure_count = FailureThreshold - 1

C37_Step ==
    obs'.op = "call" =>
        /\ obs'.outcome = "circuit_open"
           => /\ circuit_breaker'.state = circuit_breaker.state
              /\ circuit_breaker'.failure_count = circuit_breaker.failure_count
              /\ circuit_breaker'.last_failure_time = circuit_breaker.last_failure_time
              /\ circuit_breaker.state = "OPEN"
        /\ (/\ obs.last_real_failure # NoTime
            /\ now - obs.last_real_failure >= RecoveryTimeout)
           => /\ obs'.invocations = obs.invocations + 1
              /\ obs'.outcome \in FunctionOutcomes

\* C37: a call rejected because the breaker is OPEN leaves state, failure_count
\* and last_failure_time unchanged, so last_failure_time stays the time of the
\* last real failure and every call made recovery_timeout or more after that
\* failure is attempted.
C37_RejectionChangesNothing ==
    /\ [](circuit_breaker.last_failure_time = obs.last_real_failure)
    /\ [][C37_Step]_vars

\* five failures, two rejected calls during the open period, and then a call
\* at recovery_timeout after the fifth failure, which was attempted
C37_Witness ==
    /\ obs.op = "call"
    /\ obs.failures = FailureThreshold
    /\ obs.calls = FailureThreshold + 3
    /\ obs.invocations = FailureThreshold + 1
    /\ obs.outcome = "ok"
    /\ now - obs.last_real_failure = RecoveryTimeout
    /\ circuit_breaker.state = "CLOSED"

(***************************************************************************)
(* SpecBreakerThreads: one CircuitBreaker(5, 60.0) called from two         *)
(* threads.  CircuitBreaker takes no lock, so a thread can be preempted    *)
(* between any two statements of call, _on_success and _on_failure, and    *)
(* while the protected function runs.                                      *)
(***************************************************************************)
InitBreakerThreads ==
    /\ strategy_metrics = <<>>
    /\ circuit_breaker = NewBreaker(FailureThreshold, RecoveryTimeout)
    /\ global_metrics = [total_segments |-> 0, unique_segments |-> 0,
                         cache_hits |-> 0, total_time |-> 0]
    /\ now = 0
    /\ call = [t \in Threads |-> IdleCall]
    /\ cache = NewCache(CacheCapacity)
    /\ obs = [op |-> "none", thread |-> "none", outcome |-> "none", trial |-> FALSE,
              calls |-> 0]

\* time passes; as in Tick, only an OPEN breaker looks at the clock
TickThreads ==
    /\ circuit_breaker.state = "OPEN"
    /\ now < MaxTicks * TickSeconds
    /\ now' = now + TickSeconds
    /\ UNCHANGED <<cache, strategy_metrics, circuit_breaker, global_metrics, call, obs>>

\* thread t enters CircuitBreaker.call
BreakerEnter(t) ==
    /\ call[t].pc = "idle"
    /\ obs.calls < MaxBreakerOps
    /\ call' = [call EXCEPT ![t] = [pc |-> "call_state", seen |-> "none",
                                    trial |-> FALSE, loaded |-> 0]]
    /\ obs' = [obs EXCEPT !.op = "enter", !.thread = t, !.outcome = "none",
                          !.trial = FALSE, !.calls = @ + 1]
    /\ UNCHANGED <<cache, strategy_metrics, circuit_breaker, global_metrics, now>>

\* the call of thread t ends: it returns ("ok") or raises
BreakerLeave(t, outcome) ==
    /\ call' = [call EXCEPT ![t] = IdleCall]
    /\ obs' = [obs EXCEPT !.op = "leave", !.thread = t, !.outcome = outcome,
                          !.trial = call[t].trial]

\* the statements of CircuitBreaker.call up to the invocation of func
BreakerCallStep(t) ==
    /\ UNCHANGED <<cache, strategy_metrics, global_metrics, now>>
    /\ CASE call[t].pc = "call_state" ->       \* if self.state == CircuitState.OPEN:
               /\ call' = [call EXCEPT
                             ![t].seen = circuit_breaker.state,
                             ![t].pc = IF circuit_breaker.state = "OPEN"
                                       THEN "call_elapsed" ELSE "call_func"]
               /\ UNCHANGED <<circuit_breaker, obs>>
          [] call[t].pc = "call_elapsed" ->     \* if time.time() - self.last_failure_time >= ...
               /\ UNCHANGED circuit_breaker
               /\ IF now - circuit_breaker.last_failure_time >= circuit_breaker.recovery_timeout
                  THEN /\ call' = [call EXCEPT ![t].pc = "call_half_open"]
                       /\ UNCHANGED obs
                  ELSE BreakerLeave(t, "circuit_open")
          [] call[t].pc = "call_half_open" ->   \* self.state = CircuitState.HALF_OPEN
               /\ circuit_breaker' = [circuit_breaker EXCEPT !.state = "HALF_OPEN"]
               /\ call' = [call EXCEPT ![t].pc = "call_func"]
               /\ UNCHANGED obs
          [] call[t].pc = "call_func" ->        \* result = func(*args, **kwargs): func starts
               /\ call' = [call EXCEPT ![t].pc = "in_func",
                                       ![t].trial = circuit_breaker.state = "HALF_OPEN"]
               /\ UNCHANGED <<circuit_breaker, obs>>
          [] OTHER -> FALSE

\* the protected function of thread t ends as `fo`
FunctionEnd(t, fo) ==
    /\ call[t].pc = "in_func"
    /\ UNCHANGED <<cache, strategy_metrics, circuit_breaker, global_metrics, now>>
    /\ CASE fo = "ok"       -> call' = [call EXCEPT ![t].pc = "success_reset"] /\ UNCHANGED obs
          [] fo = "expected" -> call' = [call EXCEPT ![t].pc = "failure_load"] /\ UNCHANGED obs
          [] OTHER           -> BreakerLeave(t, "other")

\* the statements of CircuitBreaker._on_success in thread t
OnSuccessStep(t) ==
    /\ UNCHANGED <<cache, strategy_metrics, global_metrics, now>>
    /\ CASE call[t].pc = "success_reset" ->    \* self.failure_count = 0
               /\ circuit_breaker' = [circuit_breaker EXCEPT !.failure_count = 0]
               /\ call' = [call EXCEPT ![t].pc = "success_test"]
               /\ UNCHANGED obs
          [] call[t].pc = "success_test" ->     \* if self.state == CircuitState.HALF_OPEN:
               /\ UNCHANGED circuit_breaker
               /\ IF circuit_breaker.state = "HALF_OPEN"
                  THEN call' = [call EXCEPT ![t].pc = "success_close"] /\ UNCHANGED obs
                  ELSE BreakerLeave(t, "ok")
          [] call[t].pc = "success_close" ->    \* self.state = CircuitState.CLOSED
               /\ circuit_breaker' = [circuit_breaker EXCEPT !.state = "CLOSED"]
               /\ BreakerLeave(t, "ok")
          [] OTHER -> FALSE

\* the statements of CircuitBreaker._on_failure in thread t
OnFailureStep(t) ==
    /\ UNCHANGED <<cache, strategy_metrics, global_metrics, now>>
    /\ CASE call[t].pc = "failure_load" ->     \* self.failure_count += 1 (load)
               /\ call' = [call EXCEPT ![t].loaded = circuit_breaker.failure_count,
                                       ![t].pc = "failure_store"]
               /\ UNCHANGED <<circuit_breaker, obs>>
          [] call[t].pc = "failure_store" ->    \* self.failure_count += 1 (store)
               /\ circuit_breaker' = [circuit_breaker EXCEPT
                                         !.failure_count = call[t].loaded + 1]
               /\ call' = [call EXCEPT ![t].pc = "failure_time"]
               /\ UNCHANGED obs
          [] call[t].pc = "failure_time" ->     \* self.last_failure_time = time.time()
               /\ circuit_breaker' = [circuit_breaker EXCEPT !.last_failure_time = now]
               /\ call' = [call EXCEPT ![t].pc = "failure_test"]
               /\ UNCHANGED obs
          [] call[t].pc = "failure_test" ->     \* if self.failure_count >= self.failure_threshold:
               /\ UNCHANGED circuit_breaker
               /\ IF ReachedThreshold(circuit_breaker.failure_count,
                                      circuit_breaker.failure_threshold)
                  THEN call' = [call EXCEPT ![t].pc = "failure_open"] /\ UNCHANGED obs
                  ELSE BreakerLeave(t, "expected")
          [] call[t].pc = "failure_open" ->     \* self.state = CircuitState.OPEN
               /\ circuit_breaker' = [circuit_breaker EXCEPT !.state = "OPEN"]
               /\ BreakerLeave(t, "expected")
          [] OTHER -> FALSE

NextBreakerThreads ==
    \/ \E t \in Threads : BreakerEnter(t)
    \/ \E t \in Threads : BreakerCallStep(t)
    \/ \E t \in Threads, fo \in FunctionOutcomes : FunctionEnd(t, fo)
    \/ \E t \in Threads : OnSuccessStep(t)
    \/ \E t \in Threads : OnFailureStep(t)
    \/ TickThreads

SpecBreakerThreads == InitBreakerThreads /\ [][NextBreakerThreads]_vars

\* no thread is between two statements of call, _on_success or _on_failure
\* (threads may be waiting for the protected function)
NoTransitionInProgress == \A t \in Threads : call[t].pc \in {"idle", "in_func"}

\* C17: under any interleaving of calls through one CircuitBreaker the state
\* stays consistent: whenever the state is OPEN or HALF_OPEN,
\* failure_count >= failure_threshold, and a failing call in HALF_OPEN always
\* returns the breaker to OPEN.
C17_ConsistentBreaker ==
    /\ (NoTransitionInProgress /\ circuit_breaker.state \in {"OPEN", "HALF_OPEN"}) =>
          circuit_breaker.failure_count >= circuit_breaker.failure_threshold
    /\ (obs.op = "leave" /\ obs.outcome = "expected" /\ obs.trial) =>
          circuit_breaker.state = "OPEN"

\* C20: while the breaker is HALF_OPEN exactly one trial call is attempted: a
\* caller that finds the breaker HALF_OPEN already (the trial call has not
\* completed, or it ended with an exception outside expected_exception) does
\* not invoke the protected function.
C20_SingleTrial ==
    \A t \in Threads : ~(call[t].pc = "in_func" /\ call[t].seen = "HALF_OPEN")

(***************************************************************************)
(* SpecSelector: one StrategySelector fed with attempts and asked for the  *)
(* best strategy                                                           *)
(***************************************************************************)
\* the strategies the translator records attempts for
RecordedStrategies == {"DELIMITER", "INDIVIDUAL"}

\* latencies of an attempt, in seconds
Latencies == {0, 3, 30}

\* len(to_translate) of a request
SegmentCounts == {1, 2, 5, 6}

\* the pair whose requests are recorded, and a pair never translated so far
RecordedPair == <<"en", "es">>
SelectorPairs == {RecordedPair, <<"en", "fr">>}

InitSelector ==
    /\ InitService
    /\ cache = NewCache(CacheCapacity)
    /\ obs = [op |-> "none", records |-> 0, pair |-> <<>>, segment_count |-> 0,
              best |-> "none"]

RecordAttemptOp(strategy, success, latency, had_mismatch) ==
    /\ obs.records < MaxRecords
    /\ strategy_metrics' = RecordAttempt(strategy_metrics, RecordedPair[1], RecordedPair[2],
                                         strategy, success, latency, had_mismatch)
    /\ obs' = [op |-> "record_attempt", records |-> obs.records + 1, pair |-> RecordedPair,
               segment_count |-> 0, best |-> "none"]
    /\ UNCHANGED <<cache, circuit_breaker, global_metrics, now, call>>

GetBestStrategyOp(pair, segment_count) ==
    /\ obs' = [op |-> "get_best_strategy", records |-> obs.records, pair |-> pair,
               segment_count |-> segment_count,
               best |-> GetBestStrategy(strategy_metrics, pair[1], pair[2], segment_count)]
    /\ UNCHANGED <<cache, strategy_metrics, circuit_breaker, global_metrics, now, call>>

NextSelector ==
    \/ \E strategy \in RecordedStrategies, success \in BOOLEAN,
          latency \in Latencies, had_mismatch \in BOOLEAN :
          RecordAttemptOp(strategy, success, latency, had_mismatch)
    \/ \E pair \in SelectorPairs, segment_count \in SegmentCounts :
          GetBestStrategyOp(pair, segment_count)

SpecSelector == InitSelector /\ [][NextSelector]_vars

\* C18: for every language pair, segment count and recorded history,
\* get_best_strategy returns DELIMITER or INDIVIDUAL, never JSON_ARRAY and
\* never CACHED_ONLY.
C18_OnlyExecutableStrategies ==
    obs.op = "get_best_strategy" => obs.best \in {"DELIMITER", "INDIVIDUAL"}

\* BatchStrategy
BatchStrategies == {"JSON_ARRAY", "DELIMITER", "INDIVIDUAL", "CACHED_ONLY"}

\* no attempt has been recorded for any strategy of the pair
NoMetricsFor(pair) ==
    \A strategy \in BatchStrategies :
        MetricsKey(pair[1], pair[2], strategy) \notin DOMAIN strategy_metrics

\* C23: for a language pair with no recorded metrics, get_best_strategy
\* returns INDIVIDUAL for every segment count (the priors are DELIMITER = 0.6
\* and INDIVIDUAL = 0.9).
C23_UnseenPairIndividual ==
    (obs.op = "get_best_strategy" /\ NoMetricsFor(obs.pair)) =>
        /\ obs.best = "INDIVIDUAL"
        /\ DefaultScore("DELIMITER") = Rat(6, 10)
        /\ DefaultScore("INDIVIDUAL") = Rat(9, 10)

\* a batch of more than five segments for a pair never translated, asked
\* after attempts were recorded for the other pair
C23_Witness ==
    /\ obs.op = "get_best_strategy"
    /\ obs.pair # RecordedPair
    /\ NoMetricsFor(obs.pair)
    /\ obs.segment_count > 5
    /\ obs.records > 0
    /\ obs.best = "INDIVIDUAL"

(***************************************************************************)
(* SpecScores: get_best_strategy asked of a StrategySelector in any of the *)
(* states that up to MaxScoreAttempts attempts per strategy, all of one    *)
(* latency, leave behind for the recorded pair                             *)
(***************************************************************************)
\* the BatchMetrics after `attempts` calls of record_attempt for one key
ScoreMetrics ==
    {[attempts |-> a, successes |-> su, failures |-> a - su,
      avg_latency |-> Rat(latency, 1), mismatch_count |-> mc] :
        a \in 1..MaxScoreAttempts, su \in 0..MaxScoreAttempts,
        latency \in Latencies, mc \in 0..MaxScoreAttempts}

\* the metrics of a strategy, or <<>> while nothing was recorded for it
ScoreEntries ==
    {m \in ScoreMetrics : m.successes <= m.attempts /\ m.mismatch_count <= m.attempts}
        \cup {<<>>}

\* self.metrics with the given entries for DELIMITER and INDIVIDUAL
ScoreMap(delimiter, individual) ==
    LET kd   == MetricsKey(RecordedPair[1], RecordedPair[2], "DELIMITER")
        ki   == MetricsKey(RecordedPair[1], RecordedPair[2], "INDIVIDUAL")
        keys == (IF delimiter = <<>> THEN {} ELSE {kd})
                    \cup (IF individual = <<>> THEN {} ELSE {ki})
    IN  [k \in keys |-> IF k = kd THEN delimiter ELSE individual]

AttemptsOf(entry) == IF entry = <<>> THEN 0 ELSE entry.attempts

InitScores ==
    /\ \E delimiter \in ScoreEntries, individual \in ScoreEntries :
          /\ strategy_metrics = ScoreMap(delimiter, individual)
          /\ obs = [op |-> "none",
                    records |-> AttemptsOf(delimiter) + AttemptsOf(individual),
                    pair |-> <<>>, segment_count |-> 0, best |-> "none"]
    /\ cache = NewCache(CacheCapacity)
    /\ circuit_breaker = NewBreaker(FailureThreshold, RecoveryTimeout)
    /\ global_metrics = [total_segments |-> 0, unique_segments |-> 0,
                         cache_hits |-> 0, total_time |-> 0]
    /\ now = 0
    /\ call = IdleCall

\* a small batch and a batch of more than five segments
ScoreSegmentCounts == {2, 6}

NextScores ==
    \E segment_count \in ScoreSegmentCounts :
        GetBestStrategyOp(RecordedPair, segment_count)

SpecScores == InitScores /\ [][NextScores]_vars

\* the strategies get_best_strategy scored in the last call
Candidates ==
    IF obs.op = "get_best_strategy" /\ obs.segment_count > 1
    THEN {PreferredOrder(obs.segment_count)[i] :
            i \in 1..Len(PreferredOrder(obs.segment_count))}
    ELSE {}

\* the score the last call gave a candidate
CandidateScore(strategy) ==
    StrategyScore(strategy_metrics, obs.pair[1], obs.pair[2], strategy)

\* candidates of the last call that have metrics
Measured ==
    {c \in Candidates : MetricsKey(obs.pair[1], obs.pair[2], c) \in DOMAIN strategy_metrics}

MetricsOf(strategy) == strategy_metrics[MetricsKey(obs.pair[1], obs.pair[2], strategy)]

\* max(0, successes/attempts - min(0.3, 0.1 * mismatch_count)
\*        - min(0.2, avg_latency / 30)), over the denominator 30 * attempts
FormulaScore(m) ==
    LET d    == m.avg_latency.d
        min9 == IF 3 * m.mismatch_count < 9 THEN 3 * m.mismatch_count ELSE 9
        min6 == IF m.avg_latency.n < 6 * d THEN m.avg_latency.n ELSE 6 * d
        num  == 30 * d * m.successes - m.attempts * d * min9 - m.attempts * min6
    IN  Rat(IF num < 0 THEN 0 ELSE num, 30 * d * m.attempts)

InUnitInterval(x) == ~RatLess(x, Rat(0, 1)) /\ ~RatLess(Rat(1, 1), x)

\* C24 as stated: whenever metrics exist for a candidate's key, with any
\* number of recorded attempts >= 1, the candidate's score is
\* max(0, successes/attempts - min(0.3, 0.1 * mismatch_count)
\* - min(0.2, avg_latency / 30)), and it lies in [0, 1].
C24_ScoreIsFormula ==
    \A c \in Measured :
        MetricsOf(c).attempts >= 1 =>
            /\ CandidateScore(c) = FormulaScore(MetricsOf(c))
            /\ InUnitInterval(CandidateScore(c))

\* C24: whenever metrics exist for a candidate's key, the candidate's score
\* is max(0, successes/attempts - min(0.3, 0.1 * mismatch_count)
\* - min(0.2, avg_latency / 30)) once at least 3 attempts are recorded and
\* 0.5 while fewer than 3 are; the score always lies in [0, 1].
C24_ScoreFromThreeAttempts ==
    \A c \in Measured :
        /\ MetricsOf(c).attempts >= 3 =>
              CandidateScore(c) = FormulaScore(MetricsOf(c))
        /\ MetricsOf(c).attempts \in {1, 2} => CandidateScore(c) = Rat(1, 2)
        /\ InUnitInterval(CandidateScore(c))

\* DELIMITER with three failed, mismatched attempts scores 0 (the difference
\* is negative) and INDIVIDUAL with three fast successes scores 1
C24_Witness ==
    /\ obs.op = "get_best_strategy"
    /\ Measured = {"DELIMITER", "INDIVIDUAL"}
    /\ MetricsOf("DELIMITER").attempts = 3
    /\ MetricsOf("DELIMITER").successes = 0
    /\ MetricsOf("DELIMITER").mismatch_count = 3
    /\ CandidateScore("DELIMITER") = Rat(0, 1)
    /\ MetricsOf("INDIVIDUAL").attempts = 3
    /\ CandidateScore("INDIVIDUAL") = Rat(1, 1)

\* C25: for segment_count > 1, get_best_strategy returns a candidate whose
\* score is maximal among the candidates, and when DELIMITER and INDIVIDUAL
\* have equal maximal scores it returns DELIMITER.
C25_MaximalDelimiterFirst ==
    (obs.op = "get_best_strategy" /\ obs.segment_count > 1) =>
        /\ obs.best \in Candidates
        /\ \A c \in Candidates : ~RatLess(CandidateScore(obs.best), CandidateScore(c))
        /\ ( /\ CandidateScore("DELIMITER") = CandidateScore("INDIVIDUAL")
             /\ \A c \in Candidates :
                    ~RatLess(CandidateScore("DELIMITER"), CandidateScore(c)) )
           => obs.best = "DELIMITER"

\* the part of C25 that holds: the returned candidate's score is maximal
C25_Maximal ==
    (obs.op = "get_best_strategy" /\ obs.segment_count > 1) =>
        /\ obs.best \in Candidates
        /\ \A c \in Candidates : ~RatLess(CandidateScore(obs.best), CandidateScore(c))

(***************************************************************************)
(* SpecSelectorThreads: StrategySelector.record_attempt called from two    *)
(* threads for one (source, target, strategy) key.  The method takes no    *)
(* lock.  BatchMetrics objects are mutable and shared by reference, so     *)
(* here strategy_metrics.metrics maps a key to a reference and             *)
(* strategy_metrics.objects holds the BatchMetrics objects created so far. *)
(***************************************************************************)
ThreadKey == MetricsKey("en", "es", "INDIVIDUAL")

ThreadLatencies == {0, 3}

InitSelectorThreads ==
    /\ strategy_metrics = [metrics |-> <<>>, objects |-> <<>>]
    /\ circuit_breaker = NewBreaker(FailureThreshold, RecoveryTimeout)
    /\ global_metrics = [total_segments |-> 0, unique_segments |-> 0,
                         cache_hits |-> 0, total_time |-> 0]
    /\ now = 0
    /\ call = [t \in Threads |-> IdleCall]
    /\ cache = NewCache(CacheCapacity)
    /\ obs = [op |-> "none", thread |-> "none", calls |-> 0]

\* thread t enters record_attempt: key = self._key(source, target, strategy)
RecordCall(t, success, latency, had_mismatch) ==
    /\ call[t].pc = "idle"
    /\ obs.calls < MaxThreadRecords
    /\ call' = [call EXCEPT ![t] = [pc |-> "rec_test", key |-> ThreadKey,
                                    success |-> success, latency |-> latency,
                                    had_mismatch |-> had_mismatch, m |-> 0, loaded |-> 0,
                                    loaded_latency |-> Rat(0, 1)]]
    /\ obs' = [op |-> "call", thread |-> t, calls |-> obs.calls + 1]
    /\ UNCHANGED <<cache, strategy_metrics, circuit_breaker, global_metrics, now>>

\* where record_attempt goes after `m.attempts += 1`, and after the success
\* or failure count
AfterAttempts(c) == IF c.success THEN "rec_successes" ELSE "rec_failures"
AfterOutcome(c) == IF c.had_mismatch THEN "rec_mismatch" ELSE "rec_latency"

\* the next statement of record_attempt in thread t
RecordStep(t) ==
    /\ UNCHANGED <<cache, circuit_breaker, global_metrics, now>>
    /\ LET c   == call[t]
           obj == strategy_metrics.objects[c.m]
           Load(field, pc) ==
               /\ call' = [call EXCEPT ![t].loaded = obj[field], ![t].pc = pc]
               /\ UNCHANGED <<strategy_metrics, obs>>
           Store(field, pc) ==
               /\ strategy_metrics' = [strategy_metrics EXCEPT
                                          !.objects[c.m][field] = c.loaded + 1]
               /\ call' = [call EXCEPT ![t].pc = pc]
               /\ UNCHANGED obs
       IN  CASE c.pc = "rec_test" ->            \* if key not in self.metrics:
                  /\ call' = [call EXCEPT ![t].pc =
                                 IF c.key \in DOMAIN strategy_metrics.metrics
                                 THEN "rec_bind" ELSE "rec_new"]
                  /\ UNCHANGED <<strategy_metrics, obs>>
             [] c.pc = "rec_new" ->             \* self.metrics[key] = BatchMetrics()
                  /\ strategy_metrics' =
                        LET ref == Len(strategy_metrics.objects) + 1
                        IN  [metrics |-> [k \in DOMAIN strategy_metrics.metrics \cup {c.key} |->
                                            IF k = c.key THEN ref
                                            ELSE strategy_metrics.metrics[k]],
                             objects |-> Append(strategy_metrics.objects, NewBatchMetrics)]
                  /\ call' = [call EXCEPT ![t].pc = "rec_bind"]
                  /\ UNCHANGED obs
             [] c.pc = "rec_bind" ->            \* m = self.metrics[key]
                  /\ call' = [call EXCEPT ![t].m = strategy_metrics.metrics[c.key],
                                          ![t].pc = "rec_attempts"]
                  /\ UNCHANGED <<strategy_metrics, obs>>
             \* m.attempts += 1
             [] c.pc = "rec_attempts" -> Load("attempts", "rec_attempts_store")
             [] c.pc = "rec_attempts_store" -> Store("attempts", AfterAttempts(c))
             \* m.successes += 1
             [] c.pc = "rec_successes" -> Load("successes", "rec_successes_store")
             [] c.pc = "rec_successes_store" -> Store("successes", AfterOutcome(c))
             \* m.failures += 1
             [] c.pc = "rec_failures" -> Load("failures", "rec_failures_store")
             [] c.pc = "rec_failures_store" -> Store("failures", AfterOutcome(c))
             \* m.mismatch_count += 1
             [] c.pc = "rec_mismatch" -> Load("mismatch_count", "rec_mismatch_store")
             [] c.pc = "rec_mismatch_store" -> Store("mismatch_count", "rec_latency")
             \* m.avg_latency = (m.avg_latency * (m.attempts - 1) + latency) / m.attempts
             [] c.pc = "rec_latency" ->
                  /\ call' = [call EXCEPT ![t].loaded = obj.attempts,
                                          ![t].loaded_latency = obj.avg_latency,
                                          ![t].pc = "rec_latency_store"]
                  /\ UNCHANGED <<strategy_metrics, obs>>
             [] c.pc = "rec_latency_store" ->
                  /\ strategy_metrics' =
                        [strategy_metrics EXCEPT !.objects[c.m].avg_latency =
                            Rat(c.loaded_latency.n * (c.loaded - 1)
                                  + c.latency * c.loaded_latency.d,
                                c.loaded_latency.d * c.loaded)]
                  /\ call' = [call EXCEPT ![t] = IdleCall]
                  /\ obs' = [obs EXCEPT !.op = "record_attempt", !.thread = t]
             [] OTHER -> FALSE

NextSelectorThreads ==
    \/ \E t \in Threads, success \in BOOLEAN, latency \in ThreadLatencies,
          had_mismatch \in BOOLEAN : RecordCall(t, success, latency, had_mismatch)
    \/ \E t \in Threads : RecordStep(t)

SpecSelectorThreads == InitSelectorThreads /\ [][NextSelectorThreads]_vars

\* every record_attempt call that was started has completed
AllRecorded == obs.calls > 0 /\ \A t \in Threads : call[t].pc = "idle"

\* the BatchMetrics object of the key
KeyMetrics == strategy_metrics.objects[strategy_metrics.metrics[ThreadKey]]

\* C16: under concurrent record_attempt calls for the same (source, target,
\* strategy) key no update is lost: once k calls have completed,
\* attempts = k and successes + failures = k for that key.
C16_NoLostUpdate ==
    AllRecorded =>
        /\ KeyMetrics.attempts = obs.calls
        /\ KeyMetrics.successes + KeyMetrics.failures = obs.calls

(***************************************************************************)
(* Spec: the TranslationService singleton serving requests one at a time   *)
(***************************************************************************)
Texts == {<<"a">>, <<" ", "a">>, <<"b">>, <<" ">>}
\* (source, target) of the requests; "xx" is not in the catalog
LanguagePairs == {<<"en", "es">>, <<"en", "en">>, <<"en", "xx">>, <<"xx", "xx">>}

Segment(p, text) == [start |-> p - 1, end |-> p, text |-> text]

SegmentLists ==
    UNION {{[p \in 1..n |-> Segment(p, texts[p])] : texts \in [1..n -> Texts]} :
           n \in 0..MaxSegs}

InitObs ==
    [op |-> "none", calls |-> 0, remote_calls |-> 0, single_calls |-> 0,
     submitted |-> {}, any_ok |-> FALSE, cached_before |-> {},
     request |-> <<>>, status |-> 0, translated |-> <<>>, repeated |-> FALSE,
     pair_remote_calls |-> 0, first_translated |-> <<>>,
     delimiters |-> <<>>, mismatches |-> 0, metrics_before |-> <<>>,
     single |-> "none", cached_values |-> <<>>,
     counters_before |-> [hits |-> 0, misses |-> 0]]

Init ==
    /\ InitService
    /\ cache = NewCache(CacheCapacity)
    /\ obs = InitObs

DoneCall(segments, source, target, result, raised) ==
    [pc |-> "done", segments |-> segments, source_lang |-> source,
     target_lang |-> target, result |-> result, raised |-> raised]

\* steps 3 (store) and 4 of translate_segments, and the return
FinishCall(c, cached_translations, to_translate, translated) ==
    DoneCall(c.segments, c.source_lang, c.target_lang,
             Reconstruct(c.segments, c.text_to_indices,
                         StoreTranslations(cached_translations, to_translate, translated, 1)),
             "none")

\* translate_segments from its entry to the first request to the provider
TranslateSegments(segments, source, target) ==
    /\ call.pc = "idle"
    /\ obs.calls < MaxCalls
    /\ LET o == [InitObs EXCEPT !.op = "translate_segments", !.calls = obs.calls + 1,
                                !.metrics_before = strategy_metrics,
                                !.counters_before = [hits |-> cache.hits,
                                                     misses |-> cache.misses]]
       IN
       IF segments = <<>>
       THEN /\ call' = DoneCall(segments, source, target, <<>>, "none")
            /\ obs' = o
            /\ UNCHANGED <<cache, strategy_metrics, circuit_breaker, global_metrics, now>>
       ELSE IF SameLanguage(source, target)
       THEN /\ call' = DoneCall(segments, source, target, segments, "none")
            /\ obs' = o
            /\ UNCHANGED <<cache, strategy_metrics, circuit_breaker, global_metrics, now>>
       ELSE IF ~IsSupported(target)
       THEN /\ call' = DoneCall(segments, source, target, <<>>, "ValueError")
            /\ obs' = o
            /\ UNCHANGED <<cache, strategy_metrics, circuit_breaker, global_metrics, now>>
       ELSE LET dd  == Deduplicate(segments)
                gm  == [global_metrics EXCEPT
                          !.total_segments = @ + Len(segments),
                          !.unique_segments = @ + Len(dd.unique_segments)]
                lk  == LookupLoop(cache, dd.unique_segments, 1, source, target, <<>>, <<>>)
                c   == [pc |-> "individual", segments |-> segments,
                        source_lang |-> source, target_lang |-> target,
                        start_time |-> now, text_to_indices |-> dd.text_to_indices,
                        to_translate |-> lk.to_translate,
                        cached_translations |-> lk.cached_translations,
                        delimiter_idx |-> 0, translated |-> <<>>, batch_start |-> now]
                oo  == [o EXCEPT !.cached_before = DOMAIN lk.cached_translations,
                                 !.cached_values = lk.cached_translations]
            IN  /\ cache' = lk.cache
                /\ obs' = oo
                /\ UNCHANGED <<strategy_metrics, circuit_breaker, now>>
                /\ IF lk.to_translate = <<>>
                   THEN /\ call' = FinishCall(c, lk.cached_translations, <<>>, <<>>)
                        /\ global_metrics' = [gm EXCEPT !.total_time = @ + (now - c.start_time)]
                   ELSE /\ global_metrics' = gm
                        /\ call' =
                             IF /\ GetBestStrategy(strategy_metrics, source, target,
                                                   Len(lk.to_translate)) = "DELIMITER"
                                /\ Len(lk.to_translate) > 1
                             THEN [c EXCEPT !.pc = "delimiter"]
                             ELSE c

\* a fallback that gives up after the first mismatch
HasNextDelimiterNever(delimiter_idx) == FALSE

\* delimiter_idx < len(self.DELIMITERS) - 1
HasNextDelimiter(delimiter_idx) == delimiter_idx < Len(Delimiters) - 1

\* one invocation of _translate_batch_delimiter: a request for the joined texts
\* answered `ro`, and what follows it up to the next request
DelimiterStep(ro) ==
    /\ call.pc = "delimiter"
    /\ LET segs      == call.to_translate
           delimiter == Delimiters[call.delimiter_idx + 1]
           combined  == Join(delimiter, [p \in 1..Len(segs) |-> Strip(segs[p].text)])
           u         == TranslateSingleUncached(combined, call.source_lang,
                                                call.target_lang, ro)
           t         == now
           latency   == t - call.batch_start
           parts     == Split(u.value, delimiter)
           fallback  == [call EXCEPT !.pc = "individual", !.batch_start = t]
           o         == [obs EXCEPT
                           !.remote_calls = @ + (IF u.posted THEN 1 ELSE 0),
                           !.submitted = @ \cup (IF u.posted
                                                 THEN {Strip(segs[p].text) : p \in 1..Len(segs)}
                                                 ELSE {}),
                           !.any_ok = @ \/ (u.posted /\ u.raised = "none"),
                           !.delimiters = Append(@, delimiter),
                           !.mismatches = @ + (IF u.raised = "none" /\ Len(parts) # Len(segs)
                                               THEN 1 ELSE 0)]
       IN  /\ obs' = o
           /\ UNCHANGED <<circuit_breaker, now>>
           /\ IF u.raised # "none"
              THEN \* except Exception: return None
                   /\ call' = IF ExceptException(u.raised) THEN fallback
                              ELSE DoneCall(call.segments, call.source_lang,
                                            call.target_lang, <<>>, u.raised)
                   /\ UNCHANGED <<cache, strategy_metrics, global_metrics>>
              ELSE IF Len(parts) # Len(segs)
              THEN IF HasNextDelimiter(call.delimiter_idx)
                   THEN /\ call' = [call EXCEPT !.delimiter_idx = @ + 1, !.batch_start = t]
                        /\ UNCHANGED <<cache, strategy_metrics, global_metrics>>
                   ELSE /\ strategy_metrics' =
                              RecordAttempt(strategy_metrics, call.source_lang,
                                            call.target_lang, "DELIMITER", FALSE, latency, TRUE)
                        /\ call' = fallback
                        /\ UNCHANGED <<cache, global_metrics>>
              ELSE LET translated == [p \in 1..Len(segs) |->
                                        [start |-> segs[p].start, end |-> segs[p].end,
                                         text |-> Strip(parts[p])]]
                   IN  /\ strategy_metrics' =
                              RecordAttempt(strategy_metrics, call.source_lang,
                                            call.target_lang, "DELIMITER", TRUE, latency, FALSE)
                       /\ cache' = CacheSetAll(cache, segs, parts, call.source_lang,
                                               call.target_lang, 1)
                       /\ call' = FinishCall(call, call.cached_translations, segs, translated)
                       /\ global_metrics' =
                              [global_metrics EXCEPT !.total_time = @ + (t - call.start_time)]

\* an individual run recorded as a success only when its last text was
\* translated
IndividualSuccessIfTranslated(ok) == ok

\* the `success=True` of the record_attempt call of _translate_batch_individual;
\* ok: whether the last _translate_single obtained a translation
IndividualSuccess(ok) == TRUE

\* one turn of the loop of _translate_batch_individual: _translate_single for
\* the next text, the provider answering `ro`; after the last text, the rest of
\* translate_segments
IndividualStep(ro) ==
    /\ call.pc = "individual"
    /\ LET segs == call.to_translate
           p    == Len(call.translated) + 1
           text == Strip(segs[p].text)
           r    == TranslateSingle(cache, circuit_breaker, global_metrics, now, text,
                                   call.source_lang, call.target_lang, ro)
           t    == now
           translated == Append(call.translated,
                                [start |-> segs[p].start, end |-> segs[p].end,
                                 text |-> r.value])
       IN  /\ cache' = r.cache
           /\ UNCHANGED now
           /\ circuit_breaker' = r.cb
           /\ obs' = [obs EXCEPT
                        !.remote_calls = @ + (IF r.posted THEN 1 ELSE 0),
                        !.single_calls = @ + (IF r.posted THEN 1 ELSE 0),
                        !.submitted = @ \cup (IF r.posted THEN {text} ELSE {}),
                        !.any_ok = @ \/ r.ok,
                        !.single = CASE r.ok     -> "translated"
                                     [] r.posted -> "failed"
                                     [] OTHER    -> "not_sent"]
           /\ IF r.raised # "none"
              THEN /\ call' = DoneCall(call.segments, call.source_lang,
                                       call.target_lang, <<>>, r.raised)
                   /\ global_metrics' = r.gm
                   /\ UNCHANGED strategy_metrics
              ELSE IF p < Len(segs)
              THEN /\ call' = [call EXCEPT !.translated = translated]
                   /\ global_metrics' = r.gm
                   /\ UNCHANGED strategy_metrics
              ELSE /\ strategy_metrics' =
                          RecordAttempt(strategy_metrics, call.source_lang, call.target_lang,
                                        "INDIVIDUAL", IndividualSuccess(r.ok),
                                        t - call.batch_start, FALSE)
                   /\ call' = FinishCall(call, call.cached_translations, segs, translated)
                   /\ global_metrics' =
                          [r.gm EXCEPT !.total_time = @ + (t - call.start_time)]

\* translate_segments has returned (or raised) to its caller
Return ==
    /\ call.pc = "done"
    /\ call' = IdleCall
    /\ obs' = [InitObs EXCEPT !.op = "return", !.calls = obs.calls]
    /\ UNCHANGED <<cache, strategy_metrics, circuit_breaker, global_metrics, now>>

Next ==
    \/ \E segments \in SegmentLists, pair \in LanguagePairs :
          TranslateSegments(segments, pair[1], pair[2])
    \/ \E ro \in RemoteOutcomes : DelimiterStep(ro)
    \/ \E ro \in RemoteOutcomes : IndividualStep(ro)
    \/ Return
    \/ Tick

Spec == Init /\ [][Next]_vars

(***************************************************************************)
(* SpecOutage: the same service during a provider outage, serving requests *)
(* of three and of two distinct texts for one language pair, so that the   *)
(* breaker opens within one request and the selector has a history         *)
(***************************************************************************)
OutageTexts == <<<<"a">>, <<"b">>, <<"c">>>>

OutageSegmentLists ==
    {[p \in 1..n |-> Segment(p, OutageTexts[p])] : n \in {2, Len(OutageTexts)}}

NextOutage ==
    \/ \E segments \in OutageSegmentLists : TranslateSegments(segments, "en", "es")
    \/ \E ro \in RemoteOutcomes : DelimiterStep(ro)
    \/ \E ro \in RemoteOutcomes : IndividualStep(ro)
    \/ Return
    \/ Tick

SpecOutage == Init /\ [][NextOutage]_vars

(***************************************************************************)
(* SpecRoute: the service behind the routes of translate_text.py           *)
(***************************************************************************)
\* the public methods that class TranslationService defines
ServiceMethods == {"translate_segments", "get_supported_languages", "get_metrics"}

\* attribute lookup on the singleton: AttributeError when the name is not defined
GetAttr(name) == IF name \in ServiceMethods THEN "none" ELSE "AttributeError"

RouteTexts == {<<>>, <<"a">>, <<"b">>}

\* POST /translate/text: the handler translate_text.  The lookup of
\* translation_service.translate raises before anything is translated, and the
\* handler's except Exception turns that into a 500 response.
TranslateText(text, source, target) ==
    /\ call.pc = "idle"
    /\ obs.calls < MaxRouteCalls
    /\ LET raised == GetAttr("translate")
           status == IF text = <<>> THEN 400
                     ELSE IF raised # "none" THEN 500
                     ELSE 200
           again  == /\ obs.op = "translate_text"
                     /\ obs.request = <<text, source, target>>
       IN  obs' = [InitObs EXCEPT
                     !.op = "translate_text",
                     !.calls = obs.calls + 1,
                     !.request = <<text, source, target>>,
                     !.status = status,
                     !.repeated = again,
                     !.pair_remote_calls = IF again THEN obs.remote_calls ELSE 0,
                     !.first_translated = IF again THEN obs.translated ELSE <<>>]
    /\ UNCHANGED <<cache, strategy_metrics, circuit_breaker, global_metrics, now, call>>

NextRoute ==
    \/ \E text \in RouteTexts, pair \in LanguagePairs :
          TranslateText(text, pair[1], pair[2])
    \/ \E segments \in SegmentLists, pair \in LanguagePairs :
          obs.calls < MaxRouteCalls /\ TranslateSegments(segments, pair[1], pair[2])
    \/ \E ro \in RemoteOutcomes : DelimiterStep(ro)
    \/ \E ro \in RemoteOutcomes : IndividualStep(ro)
    \/ Return

SpecRoute == Init /\ [][NextRoute]_vars

\* C6: calling the public translate(text, source, target) twice with the same
\* non-empty text and language pair, the provider succeeding, sends exactly one
\* request; the second call is served from the cache and returns the same
\* translation as the first.
C6_IdempotentCacheHit ==
    (/\ obs.op = "translate_text"
     /\ obs.repeated
     /\ Strip(obs.request[1]) # <<>>
     /\ obs.request[2] # obs.request[3]
     /\ obs.request[3] \in SupportedLanguages)
    => /\ obs.status = 200
       /\ obs.pair_remote_calls + obs.remote_calls = 1
       /\ obs.translated = obs.first_translated

(***************************************************************************)
(* Claims about translate_segments, checked under Spec                     *)
(***************************************************************************)
\* the call has returned, and was a translation request in the sense of the
\* claims: a non-empty list, two different languages, a target of the catalog
Translated ==
    /\ call.pc = "done"
    /\ call.segments # <<>>
    /\ call.source_lang # call.target_lang
    /\ call.target_lang \in SupportedLanguages

DistinctTrimmed(segments) == {Strip(segments[p].text) : p \in 1..Len(segments)}

\* the distinct trimmed texts of the request that the lookup did not find
Uncached == DistinctTrimmed(call.segments) \ obs.cached_before

\* C1: for a non-empty list, a supported target and source # target, whatever
\* the provider and the breaker do, translate_segments returns exactly N
\* segments in input order with start and end preserved pairwise.
C1_LengthOrderTimes ==
    Translated =>
        /\ Len(call.result) = Len(call.segments)
        /\ \A p \in 1..Len(call.segments) :
              /\ call.result[p].start = call.segments[p].start
              /\ call.result[p].end = call.segments[p].end

\* a request whose batch came back corrupt with every delimiter and whose
\* texts were then translated one by one
C1_Witness ==
    /\ Translated
    /\ obs.remote_calls = Len(Delimiters) + obs.single_calls
    /\ obs.single_calls > 1
    /\ Len(call.result) = Len(call.segments)

\* C2: with a supported target translate_segments never raises, whatever the
\* provider does and whatever the breaker state is; the only error that crosses
\* the public boundary is the unsupported-target error.
C2_NeverRaises ==
    call.pc = "done" =>
        \/ call.raised = "none"
        \/ /\ call.raised = "ValueError"
           /\ call.target_lang \notin SupportedLanguages

\* a request during which the breaker was open has returned normally
C2_Witness ==
    /\ Translated
    /\ circuit_breaker.state = "OPEN"
    /\ Uncached # {}
    /\ obs.single_calls < Cardinality(Uncached \ {<<>>})
    /\ call.raised = "none"

\* C3: when every request to the provider fails (and there was one) and no
\* input text is in the cache, every output segment has its input segment's
\* text (and start and end), and nothing is raised.
C3_GracefulDegradation ==
    (Translated /\ obs.remote_calls > 0 /\ ~obs.any_ok /\ obs.cached_before = {}) =>
        /\ call.raised = "none"
        /\ call.result = call.segments

C4_Step ==
    (/\ call.pc = "idle"
     /\ call'.pc # "idle"
     /\ call'.segments # <<>>
     /\ call'.source_lang # call'.target_lang
     /\ call'.target_lang \notin SupportedLanguages)
    => /\ call'.pc = "done"
       /\ call'.raised = "ValueError"
       /\ obs'.remote_calls = 0
       /\ UNCHANGED <<cache, strategy_metrics, circuit_breaker, global_metrics>>

\* C4: with a non-empty list, source # target and a target outside the catalog,
\* translate_segments raises the unsupported-language error before any cache
\* lookup or request, leaving cache, strategy metrics, breaker and global
\* metrics unchanged.
C4_UnsupportedTarget == [][C4_Step]_vars

\* the error was raised by a service that holds translations and metrics
C4_Witness ==
    /\ call.pc = "done"
    /\ call.raised = "ValueError"
    /\ call.segments # <<>>
    /\ cache.cache # <<>>
    /\ DOMAIN strategy_metrics # {}

C5_Step ==
    (/\ call.pc = "idle"
     /\ call'.pc # "idle"
     /\ call'.source_lang = call'.target_lang)
    => /\ call'.pc = "done"
       /\ call'.raised = "none"
       /\ call'.result = call'.segments
       /\ obs'.remote_calls = 0
       /\ UNCHANGED <<cache, strategy_metrics, circuit_breaker, global_metrics>>

\* C5: translate_segments(segs, s, s) returns segs unchanged for any list and
\* any language code s, sends no request and changes no cache, metrics or
\* breaker state.
C5_IdentityFastPath == [][C5_Step]_vars

\* a non-empty list came back unchanged for a code outside the catalog
C5_Witness ==
    /\ call.pc = "done"
    /\ call.source_lang = call.target_lang
    /\ call.target_lang \notin SupportedLanguages
    /\ call.segments # <<>>
    /\ call.result = call.segments
    /\ cache.cache # <<>>

\* C7: in one call the provider is asked for distinct trimmed texts only: the
\* texts submitted are among the distinct trimmed texts that were not cached,
\* and no more single-text requests are sent than there are such texts.
C7_DedupEfficiency ==
    Translated =>
        /\ obs.submitted \subseteq Uncached
        /\ obs.single_calls <= Cardinality(Uncached)

\* more segments than distinct texts, one request per distinct text
C7_Witness ==
    /\ Translated
    /\ Len(call.segments) > Cardinality(DistinctTrimmed(call.segments))
    /\ obs.single_calls = Cardinality(Uncached)
    /\ obs.submitted = Uncached
    /\ obs.submitted # {}

\* C12: when the DELIMITER batch response splits into a number of parts
\* different from the number of input texts, the batch is retried with
\* delimiter #1 and then delimiter #2, in that order; when all three mismatch
\* the texts are translated individually; in every case the result has
\* exactly one segment per input.
C12_DelimiterFallback ==
    \* the batches of a call used DELIMITERS[0], [1], [2], in that order
    /\ Len(obs.delimiters) <= Len(Delimiters)
    /\ obs.delimiters = SubSeq(Delimiters, 1, Len(obs.delimiters))
    \* another batch is sent exactly when every one so far mismatched
    /\ call.pc = "delimiter" =>
          /\ obs.mismatches = Len(obs.delimiters)
          /\ obs.mismatches < Len(Delimiters)
    \* after a mismatch the individual translation starts only when all three
    \* delimiters have mismatched
    /\ (/\ call.pc = "individual"
        /\ obs.delimiters # <<>>
        /\ obs.mismatches = Len(obs.delimiters)) => obs.mismatches = Len(Delimiters)
    /\ (call.pc = "done" /\ obs.delimiters # <<>>) =>
          /\ call.raised = "none"
          /\ Len(call.result) = Len(call.segments)
          /\ \A p \in 1..Len(call.result) : call.result[p] # NoneSegment

\* three mismatching batches, then one request per text, and a full result
C12_Witness ==
    /\ call.pc = "done"
    /\ obs.delimiters = Delimiters
    /\ obs.mismatches = Len(Delimiters)
    /\ obs.single_calls = Len(call.segments)
    /\ Len(call.result) = Len(call.segments)
    /\ Len(call.segments) > 1
    /\ \A p \in 1..Len(call.result) :
          call.result[p].text =
             Strip(RemoteResponse(Strip(call.segments[p].text), call.target_lang, "faithful"))

\* the cache entries written by the step: new keys and keys whose value changed
Written ==
    {fp \in CacheKeys(cache') :
        fp \notin CacheKeys(cache) \/ CacheValue(cache', fp) # CacheValue(cache, fp)}

C13_Step ==
    Written # {} =>
        /\ obs'.remote_calls = obs.remote_calls + 1
        /\ obs'.any_ok

\* C13: every entry resident in the cache was written from the result of a
\* remote call that succeeded (a 200 response with a non-empty translation, or
\* a delimiter batch whose split count matched); a value produced without a
\* successful remote call is never stored.
C13_CacheOnlyRemoteResults == [][C13_Step]_vars

\* the breaker is OPEN and recovery_timeout has not elapsed
BreakerRejecting ==
    /\ circuit_breaker.state = "OPEN"
    /\ now - circuit_breaker.last_failure_time < RecoveryTimeout

C14_Step == BreakerRejecting => obs'.remote_calls <= obs.remote_calls

\* C14: every remote call made for translate_segments, the DELIMITER batch
\* included, goes through the circuit breaker: while the breaker is OPEN and
\* recovery_timeout has not elapsed no request is sent to the provider.
C14_AllCallsThroughBreaker == [][C14_Step]_vars

\* the BatchMetrics recorded for a strategy of a pair; zeros while none is
Recorded(metrics, source, target, strategy) ==
    IF MetricsKey(source, target, strategy) \in DOMAIN metrics
    THEN metrics[MetricsKey(source, target, strategy)]
    ELSE NewBatchMetrics

\* the step is a batch request whose response split into the wrong count
BatchMismatched == call.pc = "delimiter" /\ obs'.mismatches = obs.mismatches + 1

\* the step is a batch request that raised (except Exception: return None)
BatchRaised ==
    /\ call.pc = "delimiter"
    /\ call'.pc = "individual"
    /\ obs'.mismatches = obs.mismatches

\* the step is a batch request whose response split into the right count
BatchSucceeded == call.pc = "delimiter" /\ call'.pc = "done"

\* the step ends a run of _translate_batch_individual
IndividualRunEnds == call.pc = "individual" /\ call'.pc = "done"

C26_Step ==
    BatchMismatched =>
        Recorded(strategy_metrics', call.source_lang, call.target_lang,
                 "DELIMITER").mismatch_count
          = Recorded(strategy_metrics, call.source_lang, call.target_lang,
                     "DELIMITER").mismatch_count + 1

\* C26: each time a DELIMITER batch response has a split count different
\* from the input count, a mismatch is recorded against DELIMITER
\* (mismatch_count for the pair increases by one) before the next delimiter is
\* tried; a batch that mismatches with delimiter #0 and then succeeds with
\* delimiter #1 leaves mismatch_count increased.
C26_EveryMismatchRecorded == [][C26_Step]_vars

C27_Step ==
    /\ (call.pc = "delimiter" /\ call'.pc # "delimiter") =>
          Recorded(strategy_metrics', call.source_lang, call.target_lang,
                   "DELIMITER").attempts
            > Recorded(obs.metrics_before, call.source_lang, call.target_lang,
                       "DELIMITER").attempts
    /\ BatchRaised =>
          Recorded(strategy_metrics', call.source_lang, call.target_lang,
                   "DELIMITER").failures
            = Recorded(strategy_metrics, call.source_lang, call.target_lang,
                       "DELIMITER").failures + 1
    /\ IndividualRunEnds =>
          Recorded(strategy_metrics', call.source_lang, call.target_lang,
                   "INDIVIDUAL").attempts
            > Recorded(obs.metrics_before, call.source_lang, call.target_lang,
                       "INDIVIDUAL").attempts

\* C27: every execution of a strategy by translate_segments records at least
\* one attempt under its (source, target, strategy) key, including a
\* DELIMITER batch whose remote call fails with an error, which is recorded
\* as a failure for DELIMITER.
C27_EveryAttemptRecorded == [][C27_Step]_vars

C28_Step ==
    \A pair \in LanguagePairs :
        LET before == Recorded(strategy_metrics, pair[1], pair[2], "INDIVIDUAL")
            after  == Recorded(strategy_metrics', pair[1], pair[2], "INDIVIDUAL")
            run    == /\ IndividualRunEnds
                      /\ pair = <<call.source_lang, call.target_lang>>
        IN  /\ after.attempts = before.attempts + (IF run THEN 1 ELSE 0)
            /\ after.successes = before.successes + (IF run THEN 1 ELSE 0)

C28_Metrics ==
    \A key \in DOMAIN strategy_metrics :
        key[3] = "INDIVIDUAL" =>
            /\ strategy_metrics[key].failures = 0
            /\ strategy_metrics[key].successes = strategy_metrics[key].attempts

\* C28: each run of the INDIVIDUAL strategy records exactly one attempt for
\* INDIVIDUAL and marks it a success, however many of its per-text remote
\* calls failed; so the INDIVIDUAL metrics of every pair always have
\* failures = 0 and successes = attempts.
C28_IndividualAlwaysSuccess == []C28_Metrics /\ [][C28_Step]_vars

\* a run of two requests that both failed, recorded as one success
C28_Witness ==
    /\ call.pc = "done"
    /\ obs.delimiters = <<>>
    /\ obs.single_calls = 2
    /\ ~obs.any_ok
    /\ Recorded(strategy_metrics, call.source_lang, call.target_lang,
                "INDIVIDUAL").successes
         = Recorded(obs.metrics_before, call.source_lang, call.target_lang,
                    "INDIVIDUAL").successes + 1

C29_Step ==
    BatchSucceeded =>
        LET before == Recorded(strategy_metrics, call.source_lang, call.target_lang,
                               "DELIMITER")
            after  == Recorded(strategy_metrics', call.source_lang, call.target_lang,
                               "DELIMITER")
        IN  /\ after.attempts = before.attempts + 1
            /\ after.successes = before.successes + 1
            /\ after.failures = before.failures
            /\ \A i \in 1..Len(call.segments) :
                  LET text == Strip(call.segments[i].text)
                      fp   == Fingerprint(text, call.source_lang, call.target_lang)
                  IN  text \notin obs.cached_before =>
                        /\ fp \in CacheKeys(cache')
                        /\ CacheValue(cache', fp) = call'.result[i].text

\* C29: after a DELIMITER batch whose split count matches, exactly one
\* success is recorded for DELIMITER and every (trimmed input text,
\* translated part) pair of the batch has been written to the cache under the
\* request's language pair, so that a later request for any of those texts
\* makes no remote call for them.
C29_BatchCached ==
    /\ [][C29_Step]_vars
    /\ [](obs.submitted \cap obs.cached_before = {})

\* a request whose two texts were cached by an earlier DELIMITER batch is
\* answered with no remote call
C29_Witness ==
    /\ call.pc = "done"
    /\ Len(call.segments) = 2
    /\ obs.cached_before = {<<"a">>, <<"b">>}
    /\ obs.remote_calls = 0
    /\ Recorded(strategy_metrics, call.source_lang, call.target_lang,
                "DELIMITER").successes = 1
    /\ Recorded(strategy_metrics, call.source_lang, call.target_lang,
                "INDIVIDUAL").attempts = 1
    /\ \A i \in 1..2 :
          call.result[i].text =
             Strip(RemoteResponse(Strip(call.segments[i].text), call.target_lang, "faithful"))

\* the text _translate_batch_individual hands to _translate_single in the step
StepText == Strip(call.to_translate[Len(call.translated) + 1].text)

\* what the step's _translate_single returned: the entry appended to the run's
\* result, read from the returned segments when the step was the last one
StepValue ==
    IF call'.pc = "individual"
    THEN call'.translated[Len(call.translated) + 1].text
    ELSE LET i == CHOOSE i \in 1..Len(call.segments) :
                      Strip(call.segments[i].text) = StepText
         IN  call'.result[i].text

StepFingerprint == Fingerprint(StepText, call.source_lang, call.target_lang)

C32_Step ==
    call.pc = "individual" =>
        \* found in the cache: the cached value, and no request
        /\ StepFingerprint \in CacheKeys(cache) =>
              /\ StepValue = CacheValue(cache, StepFingerprint)
              /\ obs'.remote_calls = obs.remote_calls
        \* the request succeeded: its translation, which is then cached
        /\ obs'.single = "translated" =>
              /\ StepValue = Strip(RemoteResponse(StepText, call.target_lang, "faithful"))
              /\ StepFingerprint \in CacheKeys(cache')
              /\ CacheValue(cache', StepFingerprint) = StepValue
        \* the request failed, or the open breaker rejected the call: the
        \* text itself, and nothing cached
        /\ (obs'.single = "failed" \/ BreakerRejecting) =>
              /\ StepValue = StepText
              /\ cache'.cache = cache.cache
        \* the run goes on with the next text, its earlier results untouched
        /\ IF Len(call.translated) + 1 < Len(call.to_translate)
           THEN /\ call'.pc = "individual"
                /\ call'.to_translate = call.to_translate
                /\ SubSeq(call'.translated, 1, Len(call.translated)) = call.translated
           ELSE /\ call'.pc = "done"
                /\ call'.raised = "none"
                /\ \A p \in 1..Len(call.translated) :
                      \A i \in 1..Len(call.segments) :
                          Strip(call.segments[i].text) = Strip(call.to_translate[p].text)
                              => call'.result[i].text = call.translated[p].text

\* C32: in the INDIVIDUAL strategy each unique text is handled independently:
\* a text found in the cache gets the cached value, a text whose remote call
\* succeeds gets its translation (which is then cached), a text whose call
\* fails or is rejected by the open breaker gets its original text (with
\* nothing cached), and a failure for one text never aborts or alters the
\* handling of the remaining texts.
C32_IndependentTexts == [][C32_Step]_vars

\* a run of two texts: the request for the first failed, the second was
\* translated and cached
C32_Witness ==
    /\ call.pc = "done"
    /\ obs.delimiters = <<>>
    /\ obs.single_calls = 2
    /\ obs.single = "translated"
    /\ Len(call.segments) = 2
    /\ call.result[1].text = Strip(call.segments[1].text)
    /\ call.result[2].text =
          Strip(RemoteResponse(Strip(call.segments[2].text), call.target_lang, "faithful"))
    /\ Fingerprint(Strip(call.segments[1].text), call.source_lang, call.target_lang)
          \notin CacheKeys(cache)
    /\ Fingerprint(Strip(call.segments[2].text), call.source_lang, call.target_lang)
          \in CacheKeys(cache)

\* a run in which the open breaker rejected the call for the last text
C32_Rejected ==
    /\ call.pc = "done"
    /\ circuit_breaker.state = "OPEN"
    /\ obs.single = "not_sent"
    /\ obs.single_calls = 1
    /\ Len(call.segments) = 2
    /\ call.result[2].text = Strip(call.segments[2].text)
    /\ Strip(call.segments[2].text) # <<>>

\* the step is the entry of a translate_segments call that reaches the lookup
LookupDone ==
    /\ call.pc = "idle"
    /\ call'.pc # "idle"
    /\ call'.segments # <<>>
    /\ call'.source_lang # call'.target_lang
    /\ call'.target_lang \in SupportedLanguages

C33_Step ==
    LookupDone =>
        \A i \in 1..Len(call'.segments) :
            LET text == Strip(call'.segments[i].text)
                fp   == Fingerprint(text, call'.source_lang, call'.target_lang)
            IN  IF fp \in CacheKeys(cache)
                THEN /\ text \in obs'.cached_before
                     /\ obs'.cached_values[text] = CacheValue(cache, fp)
                ELSE text \notin obs'.cached_before

C33_Request ==
    /\ obs.submitted \cap obs.cached_before = {}
    /\ Translated =>
          \A i \in 1..Len(call.segments) :
              Strip(call.segments[i].text) \in obs.cached_before =>
                  call.result[i].text = obs.cached_values[Strip(call.segments[i].text)]

\* C33: a unique text that hits the cache in the lookup step of
\* translate_segments is part of no remote call of that request (neither in
\* the delimiter batch nor individually), and every segment with that trimmed
\* text gets the cached translation as its output text.
C33_CachedNotSent == []C33_Request /\ [][C33_Step]_vars

\* a request of one cached and one new text: one request, for the new text
C33_Witness ==
    /\ Translated
    /\ Len(call.segments) = 2
    /\ obs.cached_before = {Strip(call.segments[1].text)}
    /\ obs.cached_before # {<<>>}
    /\ obs.submitted = {Strip(call.segments[2].text)}
    /\ obs.remote_calls = 1
    /\ call.result[1].text = obs.cached_values[Strip(call.segments[1].text)]
    /\ call.result[1].text # Strip(call.segments[1].text)

\* a translate_segments call is between two requests
InProgress == call.pc \in {"delimiter", "individual"}

\* the unique trimmed texts of the request in progress that the lookup did
\* not find
UncachedInProgress == DistinctTrimmed(call.segments) \ obs.cached_before

\* the requests the call in progress can still make: one per delimiter not
\* tried yet while batching, and one per text not handled yet
Remaining ==
    (IF call.pc = "delimiter" THEN 3 - call.delimiter_idx ELSE 0)
        + (Len(call.to_translate) - Len(call.translated))

C34_Bound ==
    /\ (InProgress \/ Translated) =>
          /\ obs.remote_calls <= 3 + Cardinality(UncachedInProgress)
          /\ Len(obs.delimiters) <= 3
          /\ obs.single_calls <= Cardinality(UncachedInProgress)
    /\ InProgress =>
          /\ Remaining > 0
          /\ obs.remote_calls + Remaining <= 3 + Cardinality(UncachedInProgress)

\* every return of a request ends the call or leaves fewer requests to make
C34_Step ==
    InProgress =>
        \/ call'.pc = "done"
        \/ /\ call'.pc \in {"delimiter", "individual"}
           /\ (IF call'.pc = "delimiter" THEN 3 - call'.delimiter_idx ELSE 0)
                 + (Len(call'.to_translate) - Len(call'.translated)) < Remaining

\* C34: every translate_segments call terminates, provided each remote call
\* returns or times out, after at most 3 + U remote calls, where U is the
\* number of unique trimmed texts not found in the cache (at most one batch
\* call per delimiter, then at most one individual call per text).
C34_Terminates == []C34_Bound /\ [][C34_Step]_vars

\* a call that made all 3 + U requests: three batches, then one per text
C34_Witness ==
    /\ Translated
    /\ Cardinality(Uncached) = 2
    /\ Len(obs.delimiters) = 3
    /\ obs.single_calls = 2
    /\ obs.remote_calls = 3 + Cardinality(Uncached)

\* C35: in one translate_segments call each unique trimmed text is counted
\* once by the cache counters: a call that looks up U unique texts increases
\* hits + misses by exactly U, and a text that is not cached contributes
\* exactly one miss before its translation is set.
C35_CountedOnce ==
    Translated =>
        /\ cache.hits + cache.misses
              = obs.counters_before.hits + obs.counters_before.misses
                  + Cardinality(DistinctTrimmed(call.segments))
        /\ cache.misses = obs.counters_before.misses + Cardinality(Uncached)
        /\ cache.hits = obs.counters_before.hits + Cardinality(obs.cached_before)

\* the part of C35 that holds: the lookup step alone counts every unique text
\* once
C35_LookupCountsOnce ==
    [][LookupDone =>
         cache'.hits + cache'.misses
           = cache.hits + cache.misses + Cardinality(DistinctTrimmed(call'.segments))]_vars

C36_Step ==
    \* a reset of the count, or the closing of a HALF_OPEN breaker, comes with
    \* a request that was sent and succeeded
    /\ ( \/ circuit_breaker'.failure_count < circuit_breaker.failure_count
         \/ /\ circuit_breaker.state = "HALF_OPEN"
            /\ circuit_breaker'.state = "CLOSED" )
       => /\ obs'.remote_calls = obs.remote_calls + 1
          /\ obs'.single = "translated"
    \* an empty or whitespace-only text: no request, the breaker as it was
    /\ (call.pc = "individual" /\ StepText = <<>>)
       => /\ obs'.remote_calls = obs.remote_calls
          /\ circuit_breaker'.state = circuit_breaker.state
          /\ circuit_breaker'.failure_count = circuit_breaker.failure_count

\* C36: within TranslationService the breaker's failure_count is reset to 0,
\* and a HALF_OPEN breaker is closed, only by a remote call that was actually
\* sent and succeeded: a segment whose text is empty or whitespace-only never
\* contacts the remote and never changes the breaker's state or failure_count.
C36_OnlyRemoteSuccessResets == [][C36_Step]_vars

\* the part of C36 that holds: no request is sent for a whitespace-only text
\* handled by _translate_single
C36_BlankNeverSent ==
    [][(call.pc = "individual" /\ StepText = <<>>)
          => obs'.remote_calls = obs.remote_calls]_vars

(***************************************************************************)
(* SpecDedup: _deduplicate_segments applied to every list of up to         *)
(* MaxDedupSegs segments                                                   *)
(***************************************************************************)
DedupSegmentLists ==
    UNION {{[p \in 1..n |-> Segment(p, texts[p])] : texts \in [1..n -> Texts]} :
           n \in 0..MaxDedupSegs}

InitDedup ==
    /\ InitService
    /\ cache = NewCache(CacheCapacity)
    /\ \E segments \in DedupSegmentLists :
          obs = [op |-> "none", segments |-> segments,
                 unique_segments |-> <<>>, text_to_indices |-> <<>>]

DeduplicateSegments ==
    /\ obs.op = "none"
    /\ LET dd == Deduplicate(obs.segments)
       IN  obs' = [op |-> "_deduplicate_segments", segments |-> obs.segments,
                   unique_segments |-> dd.unique_segments,
                   text_to_indices |-> dd.text_to_indices]
    /\ UNCHANGED <<cache, strategy_metrics, circuit_breaker, global_metrics, now, call>>

NextDedup == DeduplicateSegments

SpecDedup == InitDedup /\ [][NextDedup]_vars

\* the positions whose trimmed text occurs at no earlier position
FirstOccurrences(segments) ==
    {p \in 1..Len(segments) :
        \A q \in 1..(p - 1) : Strip(segments[q].text) # Strip(segments[p].text)}

\* the places (text, position in its list) at which the map holds idx
PlacesOf(text_to_indices, idx) ==
    {pl \in UNION {{<<text, k>> : k \in 1..Len(text_to_indices[text])} :
                    text \in DOMAIN text_to_indices} :
        text_to_indices[pl[1]][pl[2]] = idx}

RECURSIVE SumOfLengths(_, _)
SumOfLengths(text_to_indices, texts) ==
    IF texts = {}
    THEN 0
    ELSE LET text == CHOOSE text \in texts : TRUE
         IN  Len(text_to_indices[text]) + SumOfLengths(text_to_indices, texts \ {text})

\* C30: _deduplicate_segments returns the unique segments in first-occurrence
\* order with pairwise distinct trimmed texts, and an index map in which every
\* input index 0..N-1 appears exactly once, in the list of its own segment's
\* trimmed text, so the index-list lengths sum to N.
C30_Deduplication ==
    obs.op = "_deduplicate_segments" =>
        LET segments == obs.segments
            unique   == obs.unique_segments
            map      == obs.text_to_indices
            first    == FirstOccurrences(segments)
        IN  /\ Len(unique) = Cardinality(first)
            /\ \A i \in 1..Len(unique) :
                  \E p \in first :
                      /\ Cardinality({q \in first : q <= p}) = i
                      /\ unique[i] = segments[p]
            /\ \A i, j \in 1..Len(unique) :
                  i # j => Strip(unique[i].text) # Strip(unique[j].text)
            /\ \A idx \in 0..(Len(segments) - 1) :
                  /\ Cardinality(PlacesOf(map, idx)) = 1
                  /\ \A pl \in PlacesOf(map, idx) :
                        pl[1] = Strip(segments[idx + 1].text)
            /\ SumOfLengths(map, DOMAIN map) = Len(segments)

\* four segments: a text, the same text with a leading blank, another text,
\* and the first text again
C30_Witness ==
    /\ obs.op = "_deduplicate_segments"
    /\ Len(obs.segments) = 4
    /\ obs.segments[1].text = <<"a">>
    /\ obs.segments[2].text = <<" ", "a">>
    /\ obs.segments[3].text = <<"b">>
    /\ obs.segments[4].text = <<"a">>
    /\ Len(obs.unique_segments) = 2
    /\ obs.text_to_indices[<<"a">>] = <<0, 1, 3>>
    /\ obs.text_to_indices[<<"b">>] = <<2>>

(***************************************************************************)
(* SpecRetry: one call of a function wrapped by retry_with_backoff.  The   *)
(* sync and the async wrapper run the same loop; the wrapped function and  *)
(* the on_retry callback are the environment.                              *)
(***************************************************************************)
MaxAttempts == 4

InitialDelay == 1

ExponentialBase == 2

\* the values of max_delay: one that caps the third delay, and the default
RetryMaxDelays == {3, 60}

RECURSIVE Power(_, _)
Power(base, n) == IF n = 0 THEN 1 ELSE base * Power(base, n - 1)

\* min(initial_delay * (exponential_base ** (attempt - 1)), max_delay)
Delay(attempt, max_delay) ==
    Min(InitialDelay * Power(ExponentialBase, attempt - 1), max_delay)

NoException == [kind |-> "none"]

\* the outcome of an invocation that returned
Returned == [kind |-> "returned"]

\* what one invocation of the wrapped function can raise: an exception that
\* is or is not an instance of a class in `exceptions`, and is a plain
\* exception or a TranscriptionBaseException with its recoverable flag
RaisedByFunction(attempt) ==
    {[kind |-> "function", listed |-> l, base |-> b[1], recoverable |-> b[2],
      attempt |-> attempt] :
        l \in BOOLEAN, b \in {<<FALSE, FALSE>>, <<TRUE, FALSE>>, <<TRUE, TRUE>>}}

\* what the on_retry callback raises if it raises
RaisedByCallback(attempt) == [kind |-> "callback", attempt |-> attempt]

\* `raise last_exception` with last_exception None
RaisedNone == [kind |-> "TypeError"]

\* a wrapper that never takes the non-recoverable exit
NonRecoverableIgnored(e) == FALSE

\* isinstance(e, TranscriptionBaseException) and not e.recoverable
NonRecoverable(e) == e.base /\ ~e.recoverable

\* a wrapper that never takes the last-attempt exit
IsLastAttemptNever(attempt, max_attempts) == FALSE

\* attempt == max_attempts
IsLastAttempt(attempt, max_attempts) == attempt = max_attempts

InitRetry ==
    /\ strategy_metrics = <<>>
    /\ circuit_breaker = NewBreaker(FailureThreshold, RecoveryTimeout)
    /\ global_metrics = [total_segments |-> 0, unique_segments |-> 0,
                         cache_hits |-> 0, total_time |-> 0]
    /\ cache = NewCache(CacheCapacity)
    /\ now = 0
    /\ \E w \in {"sync_wrapper", "async_wrapper"}, m \in 0..MaxAttempts,
          d \in RetryMaxDelays, cb \in BOOLEAN :
          call = [pc |-> "loop", wrapper |-> w, max_attempts |-> m, max_delay |-> d,
                  on_retry |-> cb, attempt |-> 1, last_exception |-> NoException,
                  delay |-> 0]
    /\ obs = [op |-> "none", invocations |-> 0, outcomes |-> <<>>,
              on_retry_calls |-> <<>>, sleeps |-> <<>>,
              returned |-> FALSE, raised |-> NoException]

\* the for statement: the next attempt, or the end of the range, where
\* `raise last_exception` runs
LoopExhausted ==
    /\ call.pc = "loop"
    /\ call.attempt > call.max_attempts
    /\ call' = [call EXCEPT !.pc = "raised"]
    /\ obs' = [obs EXCEPT !.op = "raise",
                          !.raised = IF call.last_exception = NoException
                                     THEN RaisedNone ELSE call.last_exception]
    /\ UNCHANGED <<cache, strategy_metrics, circuit_breaker, global_metrics, now>>

\* one attempt in which the function returns: the wrapper returns its result
AttemptReturns ==
    /\ call.pc = "loop"
    /\ call.attempt <= call.max_attempts
    /\ call' = [call EXCEPT !.pc = "returned"]
    /\ obs' = [obs EXCEPT !.op = "invoke",
                          !.invocations = @ + 1,
                          !.outcomes = Append(@, Returned),
                          !.returned = TRUE]
    /\ UNCHANGED <<cache, strategy_metrics, circuit_breaker, global_metrics, now>>

\* one attempt in which the function raises e, up to the callback
AttemptRaises(e) ==
    /\ call.pc = "loop"
    /\ call.attempt <= call.max_attempts
    /\ LET invoked == [obs EXCEPT !.op = "invoke",
                                  !.invocations = @ + 1,
                                  !.outcomes = Append(@, e)]
       IN  IF ~e.listed
           THEN \* no except clause matches
                /\ call' = [call EXCEPT !.pc = "raised"]
                /\ obs' = [invoked EXCEPT !.raised = e]
           ELSE IF NonRecoverable(e) \/ IsLastAttempt(call.attempt, call.max_attempts)
           THEN /\ call' = [call EXCEPT !.pc = "raised", !.last_exception = e]
                /\ obs' = [invoked EXCEPT !.raised = e]
           ELSE /\ call' = [call EXCEPT
                               !.pc = IF call.on_retry THEN "on_retry" ELSE "sleep",
                               !.last_exception = e,
                               !.delay = Delay(call.attempt, call.max_delay)]
                /\ obs' = invoked
    /\ UNCHANGED <<cache, strategy_metrics, circuit_breaker, global_metrics, now>>

\* on_retry(e, attempt): it returns, or it raises and the exception leaves
\* the wrapper
OnRetry(raises) ==
    /\ call.pc = "on_retry"
    /\ LET called == [obs EXCEPT !.op = "on_retry",
                                 !.on_retry_calls =
                                     Append(@, <<call.last_exception, call.attempt>>)]
       IN  IF raises
           THEN /\ call' = [call EXCEPT !.pc = "raised"]
                /\ obs' = [called EXCEPT !.raised = RaisedByCallback(call.attempt)]
           ELSE /\ call' = [call EXCEPT !.pc = "sleep"]
                /\ obs' = called
    /\ UNCHANGED <<cache, strategy_metrics, circuit_breaker, global_metrics, now>>

\* time.sleep(delay) or await asyncio.sleep(delay), and the next iteration
Sleep ==
    /\ call.pc = "sleep"
    /\ now' = now + call.delay
    /\ call' = [call EXCEPT !.pc = "loop", !.attempt = @ + 1]
    /\ obs' = [obs EXCEPT !.op = "sleep", !.sleeps = Append(@, call.delay)]
    /\ UNCHANGED <<cache, strategy_metrics, circuit_breaker, global_metrics>>

NextRetry ==
    \/ LoopExhausted
    \/ AttemptReturns
    \/ \E e \in RaisedByFunction(call.attempt) : AttemptRaises(e)
    \/ \E raises \in BOOLEAN : OnRetry(raises)
    \/ Sleep

SpecRetry == InitRetry /\ [][NextRetry]_vars

\* the wrapper has returned or raised
RetryEnded == call.pc \in {"returned", "raised"}

\* invocation k raised
Failed(k) == obs.outcomes[k] # Returned

C38_Counts ==
    /\ obs.invocations = Len(obs.outcomes)
    /\ obs.invocations <= call.max_attempts
    \* an invocation that returned is the last one
    /\ \A k \in 1..Len(obs.outcomes) :
          ~Failed(k) => /\ k = Len(obs.outcomes)
                        /\ obs.returned
                        /\ call.pc = "returned"
    /\ obs.returned => (obs.invocations >= 1 /\ ~Failed(obs.invocations))
    \* one sleep, and one callback if there is one, after each attempt that is
    \* followed by another
    /\ call.pc = "loop" =>
          /\ Len(obs.sleeps) = obs.invocations
          /\ Len(obs.on_retry_calls) = IF call.on_retry THEN obs.invocations ELSE 0
    /\ (RetryEnded /\ obs.invocations >= 1 /\ obs.raised.kind # "callback") =>
          /\ Len(obs.sleeps) = obs.invocations - 1
          /\ Len(obs.on_retry_calls) = IF call.on_retry THEN obs.invocations - 1 ELSE 0
    /\ \A k \in 1..Len(obs.on_retry_calls) :
          obs.on_retry_calls[k] = <<obs.outcomes[k], k>>
    /\ \A k \in 1..Len(obs.sleeps) :
          obs.sleeps[k] = Delay(k, call.max_delay)
    \* the failure of attempt max_attempts is the exception that leaves
    /\ (obs.invocations = call.max_attempts /\ call.max_attempts >= 1
        /\ Failed(call.max_attempts)) =>
          /\ call.pc = "raised"
          /\ obs.raised = obs.outcomes[call.max_attempts]
    \* an exception that is not listed leaves at once
    /\ \A k \in 1..Len(obs.outcomes) :
          (Failed(k) /\ ~obs.outcomes[k].listed) =>
              /\ k = obs.invocations
              /\ call.pc = "raised"
              /\ obs.raised = obs.outcomes[k]

C38_Step ==
    /\ obs'.invocations \in {obs.invocations, obs.invocations + 1}
    /\ (obs'.invocations = obs.invocations + 1 /\ obs.invocations >= 1) =>
          /\ Len(obs.sleeps) = obs.invocations
          /\ call.on_retry => Len(obs.on_retry_calls) = obs.invocations
    /\ RetryEnded => UNCHANGED vars

\* C38: the wrapped function is invoked at most max_attempts times per call;
\* the first result that it returns ends the call with no further invocation;
\* between two consecutive attempts on_retry (if given) is called once and one
\* sleep is made; the exception of attempt max_attempts is re-raised; an
\* exception that is not listed in `exceptions` leaves the wrapper with no
\* further invocation, after one invocation when it is the first.
C38_BoundedRetries == []C38_Counts /\ [][C38_Step]_vars

\* max_attempts 4 with a callback: three listed failures, each followed by one
\* callback and one sleep (1, 2 and the capped 3 seconds), and a fourth
\* invocation that returned
C38_Witness ==
    /\ call.pc = "returned"
    /\ call.max_attempts = 4
    /\ call.on_retry
    /\ obs.invocations = 4
    /\ Len(obs.on_retry_calls) = 3
    /\ obs.sleeps = <<1, 2, 3>>
    /\ now = 6

\* all of max_attempts 3 failed: the third exception left the wrapper
C38_Exhausted ==
    /\ call.pc = "raised"
    /\ call.max_attempts = 3
    /\ obs.invocations = 3
    /\ obs.raised = obs.outcomes[3]
    /\ obs.raised.listed
    /\ ~NonRecoverable(obs.raised)
    /\ Len(obs.sleeps) = 2

\* an exception that is not listed left after the only invocation
C38_Unlisted ==
    /\ call.pc = "raised"
    /\ call.max_attempts = 3
    /\ obs.invocations = 1
    /\ ~obs.raised.listed

C39_Step ==
    LET e == obs'.outcomes[Len(obs'.outcomes)]
    IN  (/\ obs'.invocations = obs.invocations + 1
         /\ e.kind = "function"
         /\ e.base /\ ~e.recoverable)
        => /\ call'.pc = "raised"
           /\ obs'.raised = e
           /\ obs'.on_retry_calls = obs.on_retry_calls
           /\ obs'.sleeps = obs.sleeps
           /\ now' = now

C39_Final ==
    \A k \in 1..Len(obs.outcomes) :
        (Failed(k) /\ obs.outcomes[k].base /\ ~obs.outcomes[k].recoverable) =>
            /\ k = obs.invocations
            /\ call.pc = "raised"
            /\ obs.raised = obs.outcomes[k]
            /\ Len(obs.on_retry_calls) <= k - 1
            /\ Len(obs.sleeps) = k - 1

====
